---- MODULE Spec2Model ----
(***************************************************************************)
(* Model of the bond calculator's numeric core:                            *)
(*   BondCalculator  (src/src/utils/BondCalculator.ts)                     *)
(*   XIRRCalculator  (src/unnamed/part_013, lines 94-301)                  *)
(*                                                                         *)
(* JavaScript numbers are modelled as signed decimal fixed-point values    *)
(* with FracLimbs limbs of four decimal digits after the point, held as    *)
(* arbitrary-length limb sequences (TLC's own integers are 32 bits wide).  *)
(* Products and quotients are truncated towards zero at that resolution,   *)
(* where an IEEE double rounds at about 16 significant digits.             *)
(*                                                                         *)
(* A Date is modelled by its time value counted in ticks of six hours,     *)
(* in UTC; a calendar day is 4 ticks and the solver's fixed year of        *)
(* 365.25 days is 1461 ticks.                                              *)
(***************************************************************************)
EXTENDS Integers, Sequences, FiniteSets, TLC

-----------------------------------------------------------------------------
(* Natural numbers as little-endian limb sequences, base BASE, no leading  *)
(* zero limb; <<>> is zero.                                                *)

BASE == 100 * 100

\* Limbs after the decimal point: values are multiples of BASE^(-FracLimbs).
FracLimbs == 4

Limb(a, i) == IF i <= Len(a) THEN a[i] ELSE 0

\* the largest member of a non-empty set of integers
MaxOf(S) == CHOOSE m \in S : \A k \in S : k <= m

\* a without its leading zero limbs
NTrim(a) ==
    LET used == {i \in 1..Len(a) : a[i] # 0}
    IN  IF used = {} THEN <<>> ELSE SubSeq(a, 1, MaxOf(used))

RECURSIVE NFromInt(_)
NFromInt(n) == IF n = 0 THEN <<>> ELSE <<n % BASE>> \o NFromInt(n \div BASE)

\* a + b.  The carry into limb i is 1 exactly when some lower limb j
\* overflows and every limb between j and i is BASE - 1 before the carry.
NAdd(a, b) ==
    LET n   == IF Len(a) > Len(b) THEN Len(a) ELSE Len(b)
        sum == [i \in 1..(n + 1) |-> Limb(a, i) + Limb(b, i)]
        carry(i) ==
            IF \E j \in 1..(i - 1) :
                   /\ sum[j] >= BASE
                   /\ \A k \in (j + 1)..(i - 1) : sum[k] = BASE - 1
            THEN 1 ELSE 0
    IN  NTrim([i \in 1..(n + 1) |-> (sum[i] + carry(i)) % BASE])

\* a - b, for a >= b.  Limb i lends 1 exactly when some lower limb j of a is
\* below that of b and the limbs between j and i are equal.
NSub(a, b) ==
    LET borrow(i) ==
            IF \E j \in 1..(i - 1) :
                   /\ a[j] < Limb(b, j)
                   /\ \A k \in (j + 1)..(i - 1) : a[k] = Limb(b, k)
            THEN 1 ELSE 0
    IN  NTrim([i \in 1..Len(a) |->
                  (a[i] - Limb(b, i) - borrow(i) + BASE) % BASE])

\* -1, 0 or 1 as a is below, equal to or above b
NCmp(a, b) ==
    IF Len(a) # Len(b) THEN (IF Len(a) < Len(b) THEN -1 ELSE 1)
    ELSE LET differ == {i \in 1..Len(a) : a[i] # b[i]}
         IN  IF differ = {} THEN 0
             ELSE IF a[MaxOf(differ)] < b[MaxOf(differ)] THEN -1 ELSE 1

\* a * BASE^k
NShift(a, k) == IF a = <<>> THEN a ELSE [i \in 1..k |-> 0] \o a

\* a \div BASE^k
NDrop(a, k) == IF Len(a) <= k THEN <<>> ELSE SubSeq(a, k + 1, Len(a))

\* a * d for a single limb d
NMulLimb(a, d) ==
    LET product == [i \in 1..Len(a) |-> a[i] * d]
    IN  NAdd([i \in 1..Len(a) |-> product[i] % BASE],
             <<0>> \o [i \in 1..Len(a) |-> product[i] \div BASE])

\* the sum of a[i] * b[k + 1 - i] over i in lo..hi, taken by halves
RECURSIVE NColumn(_, _, _, _, _)
NColumn(a, b, k, lo, hi) ==
    IF lo > hi THEN 0
    ELSE IF lo = hi THEN a[lo] * Limb(b, k + 1 - lo)
    ELSE NColumn(a, b, k, lo, (lo + hi) \div 2)
             + NColumn(a, b, k, (lo + hi) \div 2 + 1, hi)

\* a * b: the column sums of the schoolbook product, then their carries
NMul(a, b) ==
    LET n == Len(a) + Len(b)
        column == [k \in 1..n |->
                      NColumn(a, b, k, IF k > Len(b) THEN k + 1 - Len(b) ELSE 1,
                              IF k < Len(a) THEN k ELSE Len(a))]
    IN  NAdd(NAdd([k \in 1..n |-> column[k] % BASE],
                  <<0>> \o [k \in 1..n |-> (column[k] \div BASE) % BASE]),
             <<0, 0>> \o [k \in 1..n |-> column[k] \div (BASE * BASE)])

\* the largest q in lo..hi with b * q <= r
RECURSIVE NQuotLimb(_, _, _, _)
NQuotLimb(r, b, lo, hi) ==
    IF lo = hi THEN lo
    ELSE LET mid == (lo + hi + 1) \div 2
         IN  IF NCmp(NMulLimb(b, mid), r) <= 0
             THEN NQuotLimb(r, b, mid, hi)
             ELSE NQuotLimb(r, b, lo, mid - 1)

\* an upper estimate of the next quotient limb from the leading limbs; it is
\* at most 2 above the quotient when the leading limb of b is BASE \div 2
\* or more
NQuotEstimate(r, b) ==
    LET est == (Limb(r, Len(b) + 1) * BASE + Limb(r, Len(b))) \div b[Len(b)]
    IN  IF est > BASE - 1 THEN BASE - 1 ELSE est

\* one step of long division: limb is brought down to the remainder r and
\* the next quotient limb is put before quotient
NDivStep(limb, b, r, quotient) ==
    LET r1  == NTrim(<<limb>> \o r)
        est == NQuotEstimate(r1, b)
        q   == NQuotLimb(r1, b, IF est < 2 THEN 0 ELSE est - 2, est)
    IN  [r |-> NSub(r1, NMulLimb(b, q)), quotient |-> <<q>> \o quotient]

\* long division over limbs hi down to lo of a, from the remainder and
\* quotient in s.  The upper half of the limbs is finished before the lower
\* half starts.
RECURSIVE NDivFrom(_, _, _, _, _)
NDivFrom(a, b, hi, lo, s) ==
    IF hi = lo THEN NDivStep(a[hi], b, s.r, s.quotient)
    ELSE CHOOSE result \in
             {NDivFrom(a, b, (hi + lo) \div 2, lo, upper) :
                 upper \in {NDivFrom(a, b, hi, (hi + lo) \div 2 + 1, s)}} : TRUE

\* a \div b, for b # 0; both are first scaled so that the leading limb of
\* b is BASE \div 2 or more, which leaves the quotient unchanged
NDiv(a, b) ==
    LET scale == BASE \div (b[Len(b)] + 1)
        a1    == NMulLimb(a, scale)
    IN  IF a1 = <<>> THEN <<>>
        ELSE NTrim(NDivFrom(a1, NMulLimb(b, scale), Len(a1), 1,
                            [r |-> <<>>, quotient |-> <<>>]).quotient)

\* one step of short division by the limb d: s.r is the remainder so far
NDivLimbStep(limb, d, s) ==
    [r |-> (s.r * BASE + limb) % d,
     quotient |-> <<(s.r * BASE + limb) \div d>> \o s.quotient]

RECURSIVE NDivLimbFrom(_, _, _, _, _)
NDivLimbFrom(a, d, hi, lo, s) ==
    IF hi = lo THEN NDivLimbStep(a[hi], d, s)
    ELSE CHOOSE result \in
             {NDivLimbFrom(a, d, (hi + lo) \div 2, lo, upper) :
                 upper \in {NDivLimbFrom(a, d, hi, (hi + lo) \div 2 + 1, s)}}
             : TRUE

\* a \div d for a single limb d # 0
NDivLimb(a, d) ==
    IF a = <<>> THEN <<>>
    ELSE NTrim(NDivLimbFrom(a, d, Len(a), 1,
                            [r |-> 0, quotient |-> <<>>]).quotient)

-----
(* Signed fixed-point numbers: [neg, mag] stands for                       *)
(* (IF neg THEN -1 ELSE 1) * mag / BASE^FracLimbs; zero is never negative. *)

MkNum(neg, mag) == [neg |-> neg /\ mag # <<>>, mag |-> mag]

Num(n) == MkNum(n < 0, NShift(NFromInt(IF n < 0 THEN -n ELSE n), FracLimbs))

Zero == Num(0)
One == Num(1)

Neg(x) == MkNum(~x.neg, x.mag)
Abs(x) == MkNum(FALSE, x.mag)

Add(x, y) ==
    IF x.neg = y.neg THEN MkNum(x.neg, NAdd(x.mag, y.mag))
    ELSE IF NCmp(x.mag, y.mag) >= 0 THEN MkNum(x.neg, NSub(x.mag, y.mag))
    ELSE MkNum(y.neg, NSub(y.mag, x.mag))

Sub(x, y) == Add(x, Neg(y))

Mul(x, y) == MkNum(x.neg # y.neg, NDrop(NMul(x.mag, y.mag), FracLimbs))

\* x / y, for y # 0
Div(x, y) == MkNum(x.neg # y.neg, NDiv(NShift(x.mag, FracLimbs), y.mag))

\* x / n for a whole n with 0 < n < BASE; equal to Div(x, Num(n))
DivInt(x, n) == MkNum(x.neg, NDivLimb(x.mag, n))

Lt(x, y) ==
    IF x.neg # y.neg THEN x.neg
    ELSE IF x.neg THEN NCmp(x.mag, y.mag) > 0 ELSE NCmp(x.mag, y.mag) < 0

Le(x, y) == ~Lt(y, x)
Gt(x, y) == Lt(y, x)
Ge(x, y) == ~Lt(x, y)

\* the decimal literal n / 10^k
RECURSIVE Pow10(_)
Pow10(k) == IF k = 0 THEN One ELSE Mul(Num(10), Pow10(k - 1))
Dec(n, k) == Div(Num(n), Pow10(k))

-----------------------------------------------------------------------------
(* Outcome of a call: a returned value, or a thrown Error with its message. *)

Ok(v) == [kind |-> "ok", value |-> v]
Err(msg) == [kind |-> "error", message |-> msg]
NoCall == [kind |-> "none"]

-----------------------------------------------------------------------------
(* BondCalculator (src/src/utils/BondCalculator.ts)                         *)

calculateTotalCost_ZeroFaceAccepted(faceValue, purchasePrice, accruedInterest) ==
    IF Lt(faceValue, Zero) THEN Err("Face value must be greater than 0")
    ELSE IF Le(purchasePrice, Zero)
    THEN Err("Purchase price must be greater than 0")
    ELSE IF Lt(accruedInterest, Zero)
    THEN Err("Accrued interest cannot be negative")
    ELSE Ok(Add(Mul(faceValue, Div(purchasePrice, Num(100))), accruedInterest))

\* The method declares three parameters; its callers pass inputs.brokerage
\* as a fourth argument, which JavaScript drops.
calculateTotalCost(faceValue, purchasePrice, accruedInterest) ==
    IF Le(faceValue, Zero) THEN Err("Face value must be greater than 0")
    ELSE IF Le(purchasePrice, Zero)
    THEN Err("Purchase price must be greater than 0")
    ELSE IF Lt(accruedInterest, Zero)
    THEN Err("Accrued interest cannot be negative")
    ELSE Ok(Add(Mul(faceValue, Div(purchasePrice, Num(100))), accruedInterest))

calculateMonthlyCoupon(faceValue, couponRate) ==
    IF Le(faceValue, Zero) THEN Err("Face value must be greater than 0")
    ELSE IF Lt(couponRate, Zero) THEN Err("Coupon rate cannot be negative")
    ELSE Ok(Div(Mul(faceValue, Div(couponRate, Num(100))), Num(12)))

calculateNetMonthlyCoupon_TdsAdded(monthlyCoupon, tdsRate) ==
    IF Lt(monthlyCoupon, Zero) THEN Err("Monthly coupon cannot be negative")
    ELSE IF Lt(tdsRate, Zero) \/ Gt(tdsRate, Num(100))
    THEN Err("TDS rate must be between 0 and 100")
    ELSE Ok(Mul(monthlyCoupon, Add(One, Div(tdsRate, Num(100)))))

calculateNetMonthlyCoupon(monthlyCoupon, tdsRate) ==
    IF Lt(monthlyCoupon, Zero) THEN Err("Monthly coupon cannot be negative")
    ELSE IF Lt(tdsRate, Zero) \/ Gt(tdsRate, Num(100))
    THEN Err("TDS rate must be between 0 and 100")
    ELSE Ok(Mul(monthlyCoupon, Sub(One, Div(tdsRate, Num(100)))))

-----------------------------------------------------------------------------
(* Dates: time values in ticks of six hours since 1970-01-01T00:00Z.        *)
(* Months are numbered 0..11 as by Date.getMonth.                           *)

TicksPerDay == 4

IsLeap(y) == (y % 4 = 0 /\ y % 100 # 0) \/ y % 400 = 0

DaysInMonth(y, m) ==
    IF m = 1 THEN (IF IsLeap(y) THEN 29 ELSE 28)
    ELSE IF m \in {3, 5, 8, 10} THEN 30 ELSE 31

\* days from 1970-01-01 to January 1st of year y >= 1970
DaysBeforeYear(y) ==
    365 * (y - 1970) + ((y - 1969) \div 4) - ((y - 1901) \div 100)
        + ((y - 1601) \div 400)

RECURSIVE DaysBeforeMonth(_, _)
DaysBeforeMonth(y, m) ==
    IF m = 0 THEN 0 ELSE DaysBeforeMonth(y, m - 1) + DaysInMonth(y, m - 1)

\* ECMAScript MakeDay: month may be 12 or more and day may exceed the
\* month's length; both carry over into the following months.
MakeDay(y, m, d) ==
    DaysBeforeYear(y + (m \div 12)) + DaysBeforeMonth(y + (m \div 12), m % 12)
        + d - 1

DateOf(y, m, d) == MakeDay(y, m, d) * TicksPerDay

DayOf(date) == date \div TicksPerDay

getFullYear(date) ==
    LET n == DayOf(date)
    IN  CHOOSE y \in (1970 + n \div 366)..(1970 + n \div 365) :
            DaysBeforeYear(y) <= n /\ n < DaysBeforeYear(y + 1)

getMonth(date) ==
    LET y == getFullYear(date)
        n == DayOf(date) - DaysBeforeYear(y)
    IN  CHOOSE m \in 0..11 :
            DaysBeforeMonth(y, m) <= n /\ n < DaysBeforeMonth(y, m) + DaysInMonth(y, m)

getDate(date) ==
    LET y == getFullYear(date)
    IN  DayOf(date) - DaysBeforeYear(y) - DaysBeforeMonth(y, getMonth(date)) + 1

\* Date.setMonth(month): same year, day of month and time of day.
setMonth(date, month) ==
    MakeDay(getFullYear(date), month, getDate(date)) * TicksPerDay
        + (date % TicksPerDay)

-----------------------------------------------------------------------------
(* XIRRCalculator.generateCashFlows (src/unnamed/part_013, lines 209-272)   *)

\* maturityYear - purchaseYear (lines 219-221)
maxExitYear(inputs) ==
    getFullYear(inputs.maturityDate) - getFullYear(inputs.purchaseDate)

\* the old check of part_014, line 120: a fixed ceiling of five years
exitYearError_FixedFive(inputs, exitYear) ==
    IF exitYear < 1 \/ exitYear > 5 THEN Err("Exit year must be between 1 and 5")
    ELSE NoCall

\* the exit-year checks (lines 214-225): the Error thrown, or NoCall
\* (the second message stands for the template of line 224, which also
\* carries the ceiling and the maturity year)
exitYearError(inputs, exitYear) ==
    IF exitYear < 1 THEN Err("Exit year must be at least 1")
    ELSE IF exitYear > maxExitYear(inputs) THEN Err("Exit year cannot exceed maximum")
    ELSE NoCall

\* lines 246-247: the coupon is computed inline, without BondCalculator
netMonthlyCouponOf_WholeYear(inputs) ==
    LET yearlyCoupon == Mul(inputs.faceValue, Div(inputs.couponRate, Num(100)))
    IN  Mul(yearlyCoupon, Sub(One, Div(inputs.tdsRate, Num(100))))

netMonthlyCouponOf(inputs) ==
    LET monthlyCoupon ==
            Div(Mul(inputs.faceValue, Div(inputs.couponRate, Num(100))), Num(12))
    IN  Mul(monthlyCoupon, Sub(One, Div(inputs.tdsRate, Num(100))))

monthsToEmit_StopEarly(totalMonths) == 1..(totalMonths - 1)

\* the loop's range (line 253): month = 1 .. totalMonths
monthsToEmit(totalMonths) == 1..totalMonths

cashFlowAmount_ProceedsEveryMonth(inputs, netMonthlyCoupon, salePrice, month, totalMonths) ==
    Add(netMonthlyCoupon, Mul(inputs.faceValue, Div(salePrice, Num(100))))

\* lines 257-263: the coupon, plus the sale proceeds in the final month
cashFlowAmount(inputs, netMonthlyCoupon, salePrice, month, totalMonths) ==
    IF month = totalMonths
    THEN Add(netMonthlyCoupon, Mul(inputs.faceValue, Div(salePrice, Num(100))))
    ELSE netMonthlyCoupon

couponDate_WithinYear(purchaseDate, month) ==
    setMonth(purchaseDate, (getMonth(purchaseDate) + month) % 12)

\* lines 254-255: new Date(purchaseDate) moved on by month calendar months
couponDate(purchaseDate, month) ==
    setMonth(purchaseDate, getMonth(purchaseDate) + month)

\* inputs is a BondInputs record; exitYear an integer; salePrice a number.
generateCashFlows_OutflowPositive(inputs, exitYear, salePrice) ==
    LET totalCost == calculateTotalCost(inputs.faceValue, inputs.purchasePrice,
                                        inputs.accruedInterest)
        netMonthlyCoupon == netMonthlyCouponOf(inputs)
        totalMonths == exitYear * 12
    IN  IF exitYearError(inputs, exitYear) # NoCall
        THEN exitYearError(inputs, exitYear)
        ELSE IF Le(salePrice, Zero) THEN Err("Sale price must be greater than 0")
        ELSE IF totalCost.kind = "error" THEN totalCost
        ELSE Ok(<<[date |-> inputs.purchaseDate, amount |-> totalCost.value]>>
                \o [month \in monthsToEmit(totalMonths) |->
                      [date |-> couponDate(inputs.purchaseDate, month),
                       amount |-> cashFlowAmount(inputs, netMonthlyCoupon,
                                                 salePrice, month, totalMonths)]])

generateCashFlows(inputs, exitYear, salePrice) ==
    LET totalCost == calculateTotalCost(inputs.faceValue, inputs.purchasePrice,
                                        inputs.accruedInterest)
        netMonthlyCoupon == netMonthlyCouponOf(inputs)
        totalMonths == exitYear * 12
    IN  IF exitYearError(inputs, exitYear) # NoCall
        THEN exitYearError(inputs, exitYear)
        ELSE IF Le(salePrice, Zero) THEN Err("Sale price must be greater than 0")
        ELSE IF totalCost.kind = "error" THEN totalCost
        ELSE Ok(<<[date |-> inputs.purchaseDate, amount |-> Neg(totalCost.value)]>>
                \o [month \in monthsToEmit(totalMonths) |->
                      [date |-> couponDate(inputs.purchaseDate, month),
                       amount |-> cashFlowAmount(inputs, netMonthlyCoupon,
                                                 salePrice, month, totalMonths)]])

-----------------------------------------------------------------------------
(* XIRRCalculator.calculate (src/unnamed/part_013, lines 102-199, 298-301)  *)

MAX_ITERATIONS == 100
CONVERGENCE_THRESHOLD == Dec(1, 6)
INITIAL_GUESS == Dec(1, 1)

\* 365.25 days, in ticks (millisecondsPerYear, line 299)
TicksPerYear == 1461

getYearsDifference_Days365(startDate, endDate) ==
    Div(Num(endDate - startDate), Num(365 * TicksPerDay))

getYearsDifference(startDate, endDate) ==
    Div(Num(endDate - startDate), Num(TicksPerYear))

IsWhole(x) == \A i \in 1..FracLimbs : Limb(x.mag, i) = 0

RECURSIVE WholeOf(_, _)
WholeOf(a, i) == IF i > Len(a) THEN 0 ELSE a[i] + BASE * WholeOf(a, i + 1)

\* base^k for a whole k >= 0, by squaring.  Here and below a value that is
\* used more than once is bound through a one-element set, which makes TLC
\* compute it once, before it is used.
RECURSIVE PowWhole(_, _)
PowWhole(base, k) ==
    IF k = 0 THEN One
    ELSE IF k = 1 THEN base
    ELSE CHOOSE result \in
             {IF k % 2 = 0 THEN Mul(half, half) ELSE Mul(Mul(half, half), base) :
                 half \in {PowWhole(base, k \div 2)}} : TRUE

\* the fractional part of a magnitude, 0 <= FracOf(x) < 1
FracOf(x) ==
    MkNum(FALSE, NTrim([i \in 1..FracLimbs |-> Limb(x.mag, i)]))

\* the terms a series may need at most at the working precision
MaxTerms == 8 * FracLimbs

\* one more term of atanh y = y + y^3/3 + y^5/5 + ...: s.power = y^(s.n);
\* nothing is added once the power vanishes at the working precision
AtanhStep(s, ySq) ==
    IF s.power = Zero THEN s
    ELSE [power |-> Mul(s.power, ySq), n |-> s.n + 2,
          sum |-> Add(s.sum, DivInt(s.power, s.n))]

\* count terms from s on; the first half is summed before the second starts
RECURSIVE AtanhSeries(_, _, _)
AtanhSeries(s, ySq, count) ==
    IF count = 1 \/ s.power = Zero THEN AtanhStep(s, ySq)
    ELSE CHOOSE result \in
             {AtanhSeries(mid, ySq, count - count \div 2) :
                 mid \in {AtanhSeries(s, ySq, count \div 2)}} : TRUE

TwiceAtanh(y) ==
    Mul(Num(2), AtanhSeries([power |-> y, n |-> 1, sum |-> Zero],
                            Mul(y, y), MaxTerms).sum)

Ln2 == TwiceAtanh(Div(One, Num(3)))

\* x * 2^k for k >= 0 and x / 2^(-k) for k < 0
Scale(x, k) == IF k >= 0 THEN Mul(x, Num(2 ^ k)) ELSE Div(x, Num(2 ^ (-k)))

MaxShift == 20

\* m is in [3/4, 3/2)
InLnRange(m) == Ge(m, Dec(75, 2)) /\ Lt(m, Dec(15, 1))

\* ln(m * 2^k) = ln m + k ln 2, for m in [3/4, 3/2)
LnOfScaled(m, k) ==
    Add(TwiceAtanh(Div(Sub(m, One), Add(m, One))), Mul(Num(k), Ln2))

LnShifted(x, k) == LnOfScaled(Scale(x, -k), k)

\* natural logarithm of x > 0: x = m * 2^k with m in [3/4, 3/2)
Ln(x) ==
    LnShifted(x, CHOOSE k \in (-MaxShift)..MaxShift : InLnRange(Scale(x, -k)))

\* one more term of e^z = 1 + z + z^2/2! + ...: s.term = z^(s.n - 1)/(s.n - 1)!
ExpStep(s, z) ==
    IF s.term = Zero THEN s
    ELSE [term |-> DivInt(Mul(s.term, z), s.n), n |-> s.n + 1,
          sum |-> Add(s.sum, s.term)]

RECURSIVE ExpSeries(_, _, _)
ExpSeries(s, z, count) ==
    IF count = 1 \/ s.term = Zero THEN ExpStep(s, z)
    ELSE CHOOSE result \in
             {ExpSeries(mid, z, count - count \div 2) :
                 mid \in {ExpSeries(s, z, count \div 2)}} : TRUE

\* x^(2^h)
RECURSIVE SquareTimes(_, _)
SquareTimes(x, h) ==
    IF h = 0 THEN x
    ELSE CHOOSE result \in
             {SquareTimes(square, h - 1) : square \in {Mul(x, x)}} : TRUE

\* z is in [-1/2, 1/2]
InExpRange(z) == Le(Abs(z), Dec(5, 1))

\* e^z = (e^(z / 2^h))^(2^h)
ExpHalved(z, h) ==
    SquareTimes(ExpSeries([term |-> One, n |-> 1, sum |-> Zero],
                          Scale(z, -h), MaxTerms).sum, h)

\* h is the least that brings z / 2^h into [-1/2, 1/2]
Exp(z) ==
    ExpHalved(z, CHOOSE h \in 0..MaxShift :
                     /\ InExpRange(Scale(z, -h))
                     /\ h > 0 => ~InExpRange(Scale(z, 1 - h)))

\* Math.pow(base, exponent) for base > 0 (1 + rate >= 0.01 inside the loop),
\* given lnBase = ln(base): the whole part of the exponent by repeated
\* multiplication, the fractional part as e^(fraction * ln base)
powGiven(base, lnBase, exponent) ==
    LET k == WholeOf(exponent.mag, FracLimbs + 1)
    IN  CHOOSE result \in
            {IF exponent.neg THEN Div(One, magnitude) ELSE magnitude :
                magnitude \in
                    {Mul(whole, fraction) :
                        whole \in {PowWhole(base, k)},
                        fraction \in {IF IsWhole(exponent) THEN One
                                      ELSE Exp(Mul(FracOf(exponent), lnBase))}}}
            : TRUE

pow(base, exponent) == powGiven(base, Ln(base), exponent)

\* lines 185-195: what one cash flow adds to npv and to derivative;
\* lnBase = ln(1 + rate) is the same for every cash flow of a pass
cashFlowTerms(cashFlow, firstDate, rate, lnBase) ==
    LET timeDiff == getYearsDifference(firstDate, cashFlow.date)
    IN  CHOOSE result \in
            {[npv |-> Mul(cashFlow.amount, discountFactor),
              derivative |->
                  Div(Mul(Mul(Neg(timeDiff), cashFlow.amount), discountFactor),
                      Add(One, rate))] :
                discountFactor \in
                    {powGiven(Add(One, rate), lnBase, Neg(timeDiff))}} : TRUE

\* the sums over terms[lo..hi].  Add is exact in this arithmetic, so the
\* sums do not depend on the order of addition; they are taken by halves.
RECURSIVE SumTerms(_, _, _)
SumTerms(terms, lo, hi) ==
    IF lo > hi THEN [npv |-> Zero, derivative |-> Zero]
    ELSE IF lo = hi THEN terms[lo]
    ELSE CHOOSE result \in
             {[npv |-> Add(left.npv, right.npv),
               derivative |-> Add(left.derivative, right.derivative)] :
                 left \in {SumTerms(terms, lo, (lo + hi) \div 2)},
                 right \in {SumTerms(terms, (lo + hi) \div 2 + 1, hi)}} : TRUE

\* lines 176-199
calculateNPVAndDerivative(cashFlows, firstDate, rate) ==
    CHOOSE result \in
        {SumTerms(terms, 1, Len(cashFlows)) :
            terms \in
                {[i \in 1..Len(cashFlows) |->
                     cashFlowTerms(cashFlows[i], firstDate, rate, lnBase)] \o <<>> :
                    lnBase \in {Ln(Add(One, rate))}}} : TRUE

\* [...cashFlows].sort by date (line 128): stable, ascending.  The place
\* of entry i is one more than the number of entries that go before it.
sortedPosition(cashFlows, i) ==
    1 + Cardinality({j \in 1..Len(cashFlows) :
                        \/ cashFlows[j].date < cashFlows[i].date
                        \/ cashFlows[j].date = cashFlows[i].date /\ j < i})

sortByDate_AsGiven(cashFlows) == cashFlows

sortByDate(cashFlows) ==
    [k \in 1..Len(cashFlows) |->
        cashFlows[CHOOSE i \in 1..Len(cashFlows) :
                      sortedPosition(cashFlows, i) = k]]

hasPositive_ZeroCounts(cashFlows) ==
    \E i \in 1..Len(cashFlows) : Ge(cashFlows[i].amount, Zero)

hasPositive(cashFlows) ==
    \E i \in 1..Len(cashFlows) : Gt(cashFlows[i].amount, Zero)

hasNegative(cashFlows) ==
    \E i \in 1..Len(cashFlows) : Lt(cashFlows[i].amount, Zero)

\* lines 115-125: the Error thrown by the input checks, or NoCall.
\* given is FALSE when no list was passed (null or undefined).
validationError(given, cashFlows) ==
    IF ~given \/ Len(cashFlows) < 2
    THEN Err("At least two cash flows are required for XIRR calculation")
    ELSE IF ~hasPositive(cashFlows) \/ ~hasNegative(cashFlows)
    THEN Err("Cash flows must contain at least one positive and one negative value")
    ELSE NoCall

loopContinues_OneMore(iteration) == iteration <= MAX_ITERATIONS

\* the loop condition (line 136)
loopContinues(iteration) == iteration < MAX_ITERATIONS

\* rate < -0.99 || rate > 10 (line 160)
isExtreme(rate) == Lt(rate, Dec(-99, 2)) \/ Gt(rate, Num(10))

\* One pass through the loop body (lines 137-162) at the given rate:
\* the return, the throw, or the rate the next pass starts from.
\* lines 140-162, given npv and derivative at rate and the Newton-Raphson
\* estimate newRate of line 151
passOutcome(nd, rate, newRate) ==
    IF Lt(Abs(nd.npv), CONVERGENCE_THRESHOLD)
    THEN [kind |-> "return", value |-> rate, rate |-> rate, newRate |-> rate]
    ELSE IF Lt(Abs(nd.derivative), CONVERGENCE_THRESHOLD)
    THEN [kind |-> "throw", rate |-> rate, newRate |-> rate,
          message |-> "XIRR calculation failed: derivative too close to zero"]
    ELSE IF Lt(Abs(Sub(newRate, rate)), CONVERGENCE_THRESHOLD)
    THEN [kind |-> "return", value |-> newRate, rate |-> rate,
          newRate |-> newRate]
    ELSE IF isExtreme(newRate)
    THEN [kind |-> "throw", rate |-> newRate, newRate |-> newRate,
          message |-> "XIRR calculation diverged to extreme values"]
    ELSE [kind |-> "continue", rate |-> newRate, newRate |-> newRate]

\* line 151 is reached only when line 145 has not thrown
passGiven(nd, rate) ==
    passOutcome(nd, rate, Sub(rate, Div(nd.npv, nd.derivative)))

newtonStep(sortedCashFlows, firstDate, rate) ==
    passGiven(calculateNPVAndDerivative(sortedCashFlows, firstDate, rate), rate)

\* one pass of the loop (lines 136-163) as a function of calculate's locals;
\* result is NoCall while the loop goes on
loopPass(sortedCashFlows, s) ==
    IF s.result # NoCall THEN s
    ELSE IF ~loopContinues(s.iteration)
    THEN [s EXCEPT !.result =
              Err("XIRR calculation failed to converge after 100 iterations")]
    ELSE CHOOSE next \in
             {[rate |-> step.rate,
               iteration |-> IF step.kind = "continue" THEN s.iteration + 1
                             ELSE s.iteration,
               result |-> IF step.kind = "continue" THEN NoCall
                          ELSE IF step.kind = "return" THEN Ok(step.value)
                          ELSE Err(step.message)] :
                 step \in {newtonStep(sortedCashFlows, sortedCashFlows[1].date,
                                      s.rate)}} : TRUE

\* count passes in a row, by halves
RECURSIVE loopPasses(_, _, _)
loopPasses(sortedCashFlows, s, count) ==
    IF count = 1 \/ s.result # NoCall THEN loopPass(sortedCashFlows, s)
    ELSE CHOOSE last \in
             {loopPasses(sortedCashFlows, first, count - count \div 2) :
                 first \in {loopPasses(sortedCashFlows, s, count \div 2)}} : TRUE

\* XIRRCalculator.calculate (lines 113-166): the rate returned or the Error
\* thrown
calculate(given, cashFlows) ==
    IF validationError(given, cashFlows) # NoCall
    THEN validationError(given, cashFlows)
    ELSE loopPasses(sortByDate(cashFlows),
                    [rate |-> INITIAL_GUESS, iteration |-> 0, result |-> NoCall],
                    MAX_ITERATIONS + 1).result

\* XIRRCalculator.calculateScenarioXIRR (lines 282-289)
calculateScenarioXIRR(inputs, exitYear, salePrice) ==
    CHOOSE result \in
        {IF built.kind = "error" THEN built ELSE calculate(TRUE, built.value) :
            built \in {generateCashFlows(inputs, exitYear, salePrice)}} : TRUE

-----------------------------------------------------------------------------
(* Inputs of the calls the model makes.                                     *)

\* largest exit year passed to generateCashFlows
MaxExitYear == 6

FaceValues == {Num(-1000), Zero, Num(1000), Num(100000)}
PurchasePrices == {Num(-50), Zero, Num(100), Dec(1025, 1)}
AccruedInterests == {Num(-1), Zero, Dec(35863, 2)}
Brokerages == {Zero, Num(500)}
CouponRates == {Num(-1), Zero, Dec(119, 1)}
TdsRates == {Num(-1), Zero, Num(10), Num(50), Num(100), Num(101)}
MonthlyCoupons ==
    {Num(-1), Zero, Num(1)}
    \cup {calculateMonthlyCoupon(f, c).value :
            f \in {Num(1000), Num(100000)}, c \in {Dec(119, 1)}}
SalePrices == {Zero, Num(100), Dec(1025, 1)}
ExitYears == 0..MaxExitYear

\* the default purchase date, and purchases on a 29th, 30th and 31st
PurchaseDates ==
    {DateOf(2025, 9, 3), DateOf(2024, 0, 31), DateOf(2024, 1, 29),
     DateOf(2024, 7, 30), DateOf(2023, 11, 31)}
MaturityDates == {DateOf(2025, 11, 31), DateOf(2027, 0, 15), DateOf(2030, 11, 31)}

\* DEFAULT_BOND_INPUTS (src/src/types/index.ts, lines 69-78)
DEFAULT_BOND_INPUTS ==
    [faceValue |-> Num(100000),
     couponRate |-> Dec(119, 1),
     purchasePrice |-> Dec(1025, 1),
     accruedInterest |-> Dec(35863, 2),
     brokerage |-> Zero,
     purchaseDate |-> DateOf(2025, 9, 3),
     maturityDate |-> DateOf(2030, 11, 31),
     tdsRate |-> Num(10)]

\* terms within the ranges of spec section 3, and some outside them
BondInputsSet ==
    [faceValue : {Num(100000)},
     couponRate : {Zero, Dec(119, 1)},
     purchasePrice : {Dec(1025, 1)},
     accruedInterest : {Dec(35863, 2)},
     brokerage : Brokerages,
     purchaseDate : PurchaseDates,
     maturityDate : MaturityDates,
     tdsRate : {Num(10)}]
    \cup {[DEFAULT_BOND_INPUTS EXCEPT !.faceValue = Zero],
          [DEFAULT_BOND_INPUTS EXCEPT !.couponRate = Num(-1)],
          [DEFAULT_BOND_INPUTS EXCEPT !.tdsRate = Num(101)],
          [DEFAULT_BOND_INPUTS EXCEPT !.accruedInterest = Num(-1)]}

\* cash flows one fixed year apart, the first on 2025-01-01
FirstFlowDate == DateOf(2025, 0, 1)
CashFlowAt(years, amount) ==
    [date |-> FirstFlowDate + years * TicksPerYear, amount |-> amount]
YearlyFlows(amounts) ==
    [i \in 1..Len(amounts) |-> CashFlowAt(i - 1, Num(amounts[i]))]
Reversed(list) == [i \in 1..Len(list) |-> list[Len(list) + 1 - i]]

\* longest list and largest amount of the enumerated solver inputs
MaxFlows == 2
MaxAmount == 2

EnumeratedFlows ==
    UNION {{YearlyFlows(amounts) : amounts \in [1..n -> -MaxAmount..MaxAmount]} :
             n \in 0..MaxFlows}

\* lists that converge late, run out of iterations, meet a flat slope,
\* arrive unsorted, or have a root next to the upper rate limit
ChosenFlows ==
    {YearlyFlows(<<-100, 110>>),
     Reversed(YearlyFlows(<<-100, 110>>)),
     Reversed(YearlyFlows(<<-3, -2, 3>>)),
     YearlyFlows(<<-3, -2, 3>>),
     YearlyFlows(<<-3, -3, 1>>),
     YearlyFlows(<<-3, 1, 3>>),
     YearlyFlows(<<-2, 0, 0>>),
     YearlyFlows(<<0, 1, 2>>),
     YearlyFlows(<<-4, 0, 15, -11>>),
     YearlyFlows(<<-13, 7, 3, -2>>),
     YearlyFlows(<<-100, 1100>>),
     <<CashFlowAt(0, Num(-1000000)),
       CashFlowAt(1, Add(Num(11000000), Dec(1, 5)))>>,
     <<CashFlowAt(0, Num(-100)), CashFlowAt(0, Num(50)), CashFlowAt(1, Num(60))>>}

CalculateArgs ==
    {[given |-> TRUE, cashFlows |-> list] : list \in EnumeratedFlows \cup ChosenFlows}
    \cup {[given |-> FALSE, cashFlows |-> <<>>]}

-----------------------------------------------------------------------------
(* Input validation (src/unnamed/part_014, lines 216-386).  A numeric field  *)
(* of the form holds a number, NaN (parseFloat of text that is no number)   *)
(* or the empty text; a date field holds a date.                            *)

NaNValue == [nan |-> TRUE]
EmptyText == [empty |-> TRUE]
IsNumber(value) == DOMAIN value = {"neg", "mag"}
IsEmptyText(value) == DOMAIN value = {"empty"}

\* bondInputSchema (lines 216-225); every field is required
bondInputSchema ==
    [faceValue |-> [type |-> "number", min |-> Num(1000), max |-> Num(10000000)],
     couponRate |-> [type |-> "number", min |-> Zero, max |-> Num(50)],
     purchasePrice |-> [type |-> "number", min |-> Num(50), max |-> Num(200)],
     accruedInterest |-> [type |-> "number", min |-> Zero, max |-> Num(100000)],
     brokerage |-> [type |-> "number", min |-> Zero, max |-> Num(50000)],
     purchaseDate |-> [type |-> "date", after |-> ""],
     maturityDate |-> [type |-> "date", after |-> "purchaseDate"],
     tdsRate |-> [type |-> "number", min |-> Zero, max |-> Num(50)]]

Valid == [isValid |-> TRUE]
Invalid(error) == [isValid |-> FALSE, error |-> error]

\* validateNumber (lines 270-301); the messages name the field
validateNumber(fieldName, value, rule) ==
    IF ~IsNumber(value) THEN Invalid(<<fieldName, " must be a valid number">>)
    ELSE IF Lt(value, rule.min)
    THEN Invalid(<<fieldName, " must be at least ", rule.min>>)
    ELSE IF Gt(value, rule.max)
    THEN Invalid(<<fieldName, " must not exceed ", rule.max>>)
    ELSE Valid

validateDate_OnlyBefore(fieldName, value, rule, allInputs) ==
    IF rule.after # "" /\ value < allInputs[rule.after]
    THEN Invalid(<<fieldName, " must be after ", rule.after>>)
    ELSE Valid

\* validateDate (lines 306-351) of a valid Date
validateDate(fieldName, value, rule, allInputs) ==
    IF rule.after # "" /\ value <= allInputs[rule.after]
    THEN Invalid(<<fieldName, " must be after ", rule.after>>)
    ELSE Valid

\* validateField (lines 238-265)
validateField(fieldName, value, allInputs) ==
    IF bondInputSchema[fieldName].type = "number"
    THEN IF IsEmptyText(value) THEN Invalid(<<fieldName, " is required">>)
         ELSE validateNumber(fieldName, value, bondInputSchema[fieldName])
    ELSE validateDate(fieldName, value, bondInputSchema[fieldName], allInputs)

\* validateAllInputs (lines 356-364)
validateAllInputs(inputs) ==
    [fieldName \in DOMAIN bondInputSchema |->
        validateField(fieldName, inputs[fieldName], inputs)]

\* areAllInputsValid (lines 369-372)
areAllInputsValid(inputs) ==
    \A fieldName \in DOMAIN bondInputSchema :
        validateAllInputs(inputs)[fieldName].isValid

\* getValidationErrors (lines 377-386)
getValidationErrors(inputs) ==
    [fieldName \in {name \in DOMAIN bondInputSchema :
                       ~validateAllInputs(inputs)[name].isValid} |->
        validateAllInputs(inputs)[fieldName].error]

-----------------------------------------------------------------------------
(* The BondCalculator component (src/src/components/BondCalculator.tsx):    *)
(* the XIRR matrix of the selected exit years and sale prices.              *)

\* src/src/types/index.ts, lines 83 and 89
DEFAULT_SALE_PRICES == <<Num(100), Num(101), Num(102), Dec(1025, 1)>>
DEFAULT_EXIT_YEARS == <<1, 2, 3, 4, 5>>

\* generateDefaultExitYears (lines 97-109)
generateDefaultExitYears(purchaseDate, maturityDate) ==
    LET maxYears == getFullYear(maturityDate) - getFullYear(purchaseDate) + 1
    IN  [i \in 1..(IF maxYears > 1 THEN maxYears ELSE 1) |-> i]

\* the Error messages of the core that contain 'converge' (line 299) and
\* 'positive and one negative' (line 303)
IncludesConverge(message) ==
    message = "XIRR calculation failed to converge after 100 iterations"
IncludesPositiveAndOneNegative(message) ==
    message = "Cash flows must contain at least one positive and one negative value"

\* lines 299-311: the message pushed for a failed cell, as the pieces of
\* its template
calculationError(exitYear, salePrice, message) ==
    IF IncludesConverge(message)
    THEN <<"XIRR calculation did not converge for exit year ", exitYear,
           " and sale price ", salePrice,
           "%. This may indicate an unusual cash flow pattern.">>
    ELSE IF IncludesPositiveAndOneNegative(message)
    THEN <<"Invalid cash flow pattern for exit year ", exitYear,
           " and sale price ", salePrice,
           "%. Please check your input values.">>
    ELSE <<"Calculation error for exit year ", exitYear,
           " and sale price ", salePrice, "%: ", message>>

\* calculateScenarioXIRR is pure: rates holds its results for the scenarios
\* worked out before, and any other scenario is worked out here
MatchesScenario(entry, inputs, exitYear, salePrice) ==
    entry.inputs = inputs /\ entry.exitYear = exitYear /\ entry.salePrice = salePrice
scenarioXIRR(rates, inputs, exitYear, salePrice) ==
    IF \E entry \in rates : MatchesScenario(entry, inputs, exitYear, salePrice)
    THEN (CHOOSE entry \in rates :
              MatchesScenario(entry, inputs, exitYear, salePrice)).result
    ELSE calculateScenarioXIRR(inputs, exitYear, salePrice)

\* the k-th cell of the nested loops (lines 278-281): years outside,
\* prices inside
exitYearOfStep(build, k) ==
    build.selectedExitYears[((k - 1) \div Len(build.selectedSalePrices)) + 1]
salePriceOfStep(build, k) ==
    build.selectedSalePrices[((k - 1) % Len(build.selectedSalePrices)) + 1]

\* lines 282-316: the try and its catch for one cell
tryCell(build, acc, exitYear, salePrice) ==
    CHOOSE next \in
        {[matrix |->
              (exitYear :>
                   ((salePrice :>
                         (IF xirr.kind = "ok" THEN xirr.value ELSE NaNValue))
                    @@ acc.matrix[exitYear]))
              @@ acc.matrix,
          calculationErrors |->
              IF xirr.kind = "ok" THEN acc.calculationErrors
              ELSE Append(acc.calculationErrors,
                          calculationError(exitYear, salePrice, xirr.message)),
          attempted |->
              Append(acc.attempted,
                     [inputs |-> build.inputs, exitYear |-> exitYear,
                      salePrice |-> salePrice])] :
            xirr \in {scenarioXIRR(build.rates, build.inputs, exitYear,
                                   salePrice)}} : TRUE

\* line 279: matrix[exitYear] = {} when a row starts
startRow(build, acc, k) ==
    IF (k - 1) % Len(build.selectedSalePrices) = 0
    THEN [acc EXCEPT !.matrix = (exitYearOfStep(build, k) :> <<>>) @@ acc.matrix]
    ELSE acc

buildStep_StopAtFailure(build, acc, k) ==
    IF acc.calculationErrors # <<>> THEN acc
    ELSE tryCell(build, startRow(build, acc, k), exitYearOfStep(build, k),
                 salePriceOfStep(build, k))

\* one pass through the inner loop body
buildStep(build, acc, k) ==
    tryCell(build, startRow(build, acc, k), exitYearOfStep(build, k),
            salePriceOfStep(build, k))

\* cells lo..hi in loop order, by halves
RECURSIVE buildCells(_, _, _, _)
buildCells(build, acc, lo, hi) ==
    IF lo = hi THEN buildStep(build, acc, lo)
    ELSE CHOOSE last \in
             {buildCells(build, first, (lo + hi) \div 2 + 1, hi) :
                 first \in {buildCells(build, acc, lo, (lo + hi) \div 2)}} : TRUE

\* line 265: the matrix is built only from valid inputs and selections
readyToCalculate(inputs, selectedSalePrices, selectedExitYears) ==
    /\ areAllInputsValid(inputs)
    /\ Len(selectedSalePrices) # 0
    /\ Len(selectedExitYears) # 0

NothingBuilt == [matrix |-> <<>>, calculationErrors |-> <<>>, attempted |-> <<>>]

\* the xirrMatrix memo (lines 263-340): the matrix returned, the messages
\* collected and the calls of calculateScenarioXIRR made
buildMatrix(inputs, selectedSalePrices, selectedExitYears, rates) ==
    IF ~readyToCalculate(inputs, selectedSalePrices, selectedExitYears)
    THEN NothingBuilt
    ELSE buildCells([inputs |-> inputs, selectedSalePrices |-> selectedSalePrices,
                     selectedExitYears |-> selectedExitYears, rates |-> rates],
                    NothingBuilt, 1,
                    Len(selectedExitYears) * Len(selectedSalePrices))

\* Array.prototype.includes, filter(y => y !== x), sort((a, b) => a - b)
Includes(list, x) == \E i \in 1..Len(list) : list[i] = x
Without(list, x) == SelectSeq(list, LAMBDA y : y # x)
sortYears(years) ==
    [k \in 1..Len(years) |->
        years[CHOOSE i \in 1..Len(years) :
                  k = 1 + Cardinality({j \in 1..Len(years) :
                                          \/ years[j] < years[i]
                                          \/ years[j] = years[i] /\ j < i})]]
sortPrices(prices) ==
    [k \in 1..Len(prices) |->
        prices[CHOOSE i \in 1..Len(prices) :
                   k = 1 + Cardinality({j \in 1..Len(prices) :
                                           \/ Lt(prices[j], prices[i])
                                           \/ prices[j] = prices[i] /\ j < i})]]

\* ExitYearSelector.handleYearToggle and handleSelectAll
\* (src/src/components/ExitYearSelector.tsx, lines 33-58)
toggleYear(selectedYears, year) ==
    IF Includes(selectedYears, year) THEN Without(selectedYears, year)
    ELSE sortYears(Append(selectedYears, year))
selectAllYears(selectedYears) ==
    IF Len(selectedYears) = Len(DEFAULT_EXIT_YEARS) THEN <<>>
    ELSE DEFAULT_EXIT_YEARS

\* SalePriceSelector.handlePriceToggle and handleSelectAll
\* (src/src/components/SalePriceSelector.tsx, lines 189-264)
togglePrice(selectedPrices, price) ==
    IF Includes(selectedPrices, price) THEN Without(selectedPrices, price)
    ELSE sortPrices(Append(selectedPrices, price))
selectAllPrices(selectedPrices, availablePrices) ==
    IF Len(selectedPrices) = Len(availablePrices) THEN <<>>
    ELSE availablePrices

\* Math.floor and Math.ceil
HasFraction(x) == \E i \in 1..FracLimbs : Limb(x.mag, i) # 0
Whole(x) == MkNum(x.neg, NShift(NDrop(x.mag, FracLimbs), FracLimbs))
floor(x) == IF x.neg /\ HasFraction(x) THEN Sub(Whole(x), One) ELSE Whole(x)
ceil(x) == IF ~x.neg /\ HasFraction(x) THEN Add(Whole(x), One) ELSE Whole(x)

\* the loop of generateDefaultSalePrices (lines 77-79 of BondCalculator.tsx),
\* in steps of 0.5
RECURSIVE priceSteps(_, _)
priceSteps(price, endPrice) ==
    IF Gt(price, endPrice) THEN <<>>
    ELSE <<price>> \o priceSteps(Add(price, DivInt(One, 2)), endPrice)

\* BondCalculator.generateDefaultSalePrices (lines 65-92), the same code as
\* the defaultPrices memo of SalePriceSelector.tsx (lines 158-185)
generateDefaultSalePrices(purchasePrice) ==
    LET faceValue == Num(100)
        minPrice == IF Lt(purchasePrice, faceValue) THEN purchasePrice ELSE faceValue
        maxPrice == IF Gt(purchasePrice, faceValue) THEN purchasePrice ELSE faceValue
        startPrice == DivInt(floor(Mul(minPrice, Num(2))), 2)
        endPrice == DivInt(ceil(Mul(maxPrice, Num(2))), 2)
        stepped == priceSteps(startPrice, endPrice)
        withFace == IF Includes(stepped, faceValue) THEN stepped
                    ELSE Append(stepped, faceValue)
        withPurchase == IF Includes(withFace, purchasePrice) THEN withFace
                        ELSE Append(withFace, purchasePrice)
    IN  sortPrices(withPurchase)

\* the two lists of sale prices BondCalculator holds (lines 35-36)
SalePriceLists(selectedPrices, availablePrices) ==
    [selectedSalePrices |-> selectedPrices, availableSalePrices |-> availablePrices]

\* BondCalculator.handleSalePriceChange (lines 202-204)
handleSalePriceChange(lists, prices) ==
    [lists EXCEPT !.selectedSalePrices = prices]

\* BondCalculator.handleAvailableSalePricesChange (lines 209-213)
handleAvailableSalePricesChange(lists, prices) ==
    [lists EXCEPT !.availableSalePrices = prices,
                  !.selectedSalePrices =
                      SelectSeq(@, LAMBDA price : Includes(prices, price))]

\* the effect of lines 114-126 of BondCalculator.tsx
salePricesEffect(lists, purchasePrice) ==
    LET newDefaultPrices == generateDefaultSalePrices(purchasePrice)
        keyPrices == <<Num(100), purchasePrice>>
        others == SelectSeq(newDefaultPrices,
                            LAMBDA p : ~Includes(keyPrices, p))
        additionalPrices == SubSeq(others, 1, IF Len(others) < 2 THEN Len(others) ELSE 2)
        defaultSelection == SelectSeq(keyPrices \o additionalPrices,
                                      LAMBDA p : Includes(newDefaultPrices, p))
    IN  IF Len(lists.availableSalePrices) = 0
        THEN SalePriceLists(defaultSelection, newDefaultPrices)
        ELSE lists

\* SalePriceSelector.handlePriceToggle (lines 189-201) and handleSelectAll
\* (lines 256-264), through the onSelectionChange prop
handlePriceToggle(lists, price) ==
    handleSalePriceChange(lists, togglePrice(lists.selectedSalePrices, price))
handleSelectAll(lists) ==
    handleSalePriceChange(lists, selectAllPrices(lists.selectedSalePrices,
                                                 lists.availableSalePrices))

\* SalePriceSelector.handleAddPrice (lines 206-226); price is the parseFloat
\* of the input, NaNValue when it is no number
handleAddPrice(lists, price) ==
    IF ~IsNumber(price) \/ Le(price, Zero) THEN lists
    ELSE IF Includes(lists.availableSalePrices, price) THEN lists
    ELSE handleAvailableSalePricesChange(
             lists, sortPrices(Append(lists.availableSalePrices, price)))

\* SalePriceSelector.handleRemovePrice (lines 231-242): the two props are
\* called in turn, on the lists of the render the button belongs to
handleRemovePrice(lists, price) ==
    LET removed == handleAvailableSalePricesChange(
                       lists, Without(lists.availableSalePrices, price))
    IN  IF Includes(lists.selectedSalePrices, price)
        THEN handleSalePriceChange(removed, Without(lists.selectedSalePrices, price))
        ELSE removed

handleResetToDefaults_SelectionKept(lists, purchasePrice) ==
    handleSalePriceChange(
        handleAvailableSalePricesChange(lists, generateDefaultSalePrices(purchasePrice)),
        lists.selectedSalePrices)

\* SalePriceSelector.handleResetToDefaults (lines 247-252)
handleResetToDefaults(lists, purchasePrice) ==
    LET defaultPrices == generateDefaultSalePrices(purchasePrice)
    IN  handleSalePriceChange(
            handleAvailableSalePricesChange(lists, defaultPrices),
            SelectSeq(lists.selectedSalePrices,
                      LAMBDA price : Includes(defaultPrices, price)))

\* SalePriceSelector.isDefaultPrice (line 275): the remove button is
\* rendered for the other prices only (lines 384-393)
isDefaultPrice(price, purchasePrice) ==
    Includes(generateDefaultSalePrices(purchasePrice), price)

\* the initial ErrorState (lines 38-42)
NoErrors == [inputErrors |-> <<>>, calculationErrors |-> <<>>, systemErrors |-> <<>>]

errorsWhenNotReady_Kept(errors) == errors

\* lines 269-273: the setErrors of the early return
errorsWhenNotReady(errors) ==
    [errors EXCEPT !.calculationErrors = <<>>, !.systemErrors = <<>>]

errorsAfterBuild_Appended(errors, built) ==
    [errors EXCEPT !.calculationErrors = errors.calculationErrors \o built.calculationErrors,
                   !.systemErrors = <<>>]

\* lines 321-326: the setErrors after the loops; nothing in the loops
\* throws past the inner catch, so systemErrors stays empty
errorsAfterBuild(errors, built) ==
    [errors EXCEPT !.calculationErrors = built.calculationErrors,
                   !.systemErrors = <<>>]

\* errors after a render whose memo ran
errorsAfterRender(errors, inputs, selectedSalePrices, selectedExitYears, built) ==
    IF readyToCalculate(inputs, selectedSalePrices, selectedExitYears)
    THEN errorsAfterBuild(errors, built)
    ELSE errorsWhenNotReady(errors)

\* ---- ReturnMatrix (src/src/components/ReturnMatrix.tsx) ----

\* Number.prototype.toFixed(2): the sign and the hundredths, rounded to
\* the nearest
toFixed2(x) ==
    [neg |-> x.neg,
     hundredths |-> WholeOf(Add(Mul(Abs(x), Num(100)), Dec(5, 1)).mag,
                            FracLimbs + 1)]

NotAvailable == [text |-> "N/A"]

\* lines 50-55
formatXIRR(xirr) ==
    IF ~IsNumber(xirr) THEN NotAvailable
    ELSE [text |-> "%", percent |-> toFixed2(Mul(xirr, Num(100)))]

\* calculateTotalAmount (lines 63-80)
calculateTotalAmount(bondInputs, exitYear, salePrice) ==
    LET saleProceeds == Mul(bondInputs.faceValue, Div(salePrice, Num(100)))
        monthlyCoupon ==
            Div(Mul(bondInputs.faceValue, Div(bondInputs.couponRate, Num(100))),
                Num(12))
        netMonthlyCoupon ==
            Mul(monthlyCoupon, Sub(One, Div(bondInputs.tdsRate, Num(100))))
        monthsInFirstYear == 12 - getMonth(bondInputs.purchaseDate)
        additionalYears == exitYear - 1
        totalMonths == monthsInFirstYear + (additionalYears * 12)
        totalCoupons == Mul(netMonthlyCoupon, Num(totalMonths))
    IN  Add(saleProceeds, totalCoupons)

NullValue == [null |-> TRUE]

\* lines 110-112: xirrMatrix[exitYear]?.[salePrice] ?? null
getXIRRValue(matrix, exitYear, salePrice) ==
    IF exitYear \in DOMAIN matrix
    THEN IF salePrice \in DOMAIN matrix[exitYear]
         THEN matrix[exitYear][salePrice]
         ELSE NullValue
    ELSE NullValue

\* lines 203 and 269: the text of one cell once isCalculating is false
cellText(matrix, exitYear, salePrice) ==
    IF getXIRRValue(matrix, exitYear, salePrice) # NullValue
    THEN formatXIRR(getXIRRValue(matrix, exitYear, salePrice))
    ELSE NotAvailable

\* what ReturnMatrix returns (lines 150-166 and 286-336): the list of
\* messages alone when there is any, else the cells
returnMatrix(matrix, salePrices, exitYears, calculationErrors) ==
    IF Len(calculationErrors) > 0
    THEN [errorList |-> calculationErrors, cells |-> <<>>]
    ELSE [errorList |-> <<>>,
          cells |-> [cell \in {<<exitYears[i], salePrices[j]>> :
                                  i \in 1..Len(exitYears),
                                  j \in 1..Len(salePrices)}
                        |-> cellText(matrix, cell[1], cell[2])]]

-----------------------------------------------------------------------------
(* sanitizeParameters and containsPII (analyticsService.ts, lines 718-758). *)
(* A string is the sequence of its characters.  A regular expression is a   *)
(* sequence of pieces -- a word boundary, or a character class repeated     *)
(* between min and max times -- and test finds out whether some substring   *)
(* matches, as RegExp.prototype.test does, by following every way of        *)
(* matching at once.  An alternation is written as one expression per       *)
(* alternative.                                                             *)

UpperCase ==
    <<"A", "B", "C", "D", "E", "F", "G", "H", "I", "J", "K", "L", "M",
      "N", "O", "P", "Q", "R", "S", "T", "U", "V", "W", "X", "Y", "Z">>
LowerCase ==
    <<"a", "b", "c", "d", "e", "f", "g", "h", "i", "j", "k", "l", "m",
      "n", "o", "p", "q", "r", "s", "t", "u", "v", "w", "x", "y", "z">>
Range(list) == {list[i] : i \in DOMAIN list}
Upper == Range(UpperCase)
Lower == Range(LowerCase)
Digit == {"0", "1", "2", "3", "4", "5", "6", "7", "8", "9"}
WordChar == Upper \cup Lower \cup Digit \cup {"_"}
WhiteSpace == {" "}

WordBoundary == [kind |-> "boundary"]
Repeat(class, min, max) ==
    [kind |-> "repeat", class |-> class, min |-> min, max |-> max]
AtLeast(class, min) == [kind |-> "atLeast", class |-> class, min |-> min]
Times(class, count) == Repeat(class, count, count)
Optional(class) == Repeat(class, 0, 1)
\* the letters of a word under the i flag
AnyCase(letter) ==
    {letter} \cup {UpperCase[i] : i \in {j \in DOMAIN LowerCase : LowerCase[j] = letter}}
IgnoringCase(word) == [i \in DOMAIN word |-> Times(AnyCase(word[i]), 1)]

IsWordAt(text, p) == p >= 1 /\ p <= Len(text) /\ text[p] \in WordChar

\* how many characters after the first p are in the class, one after another
RunFrom(text, class, p) ==
    (CHOOSE q \in p..Len(text) :
         /\ \A k \in (p + 1)..q : text[k] \in class
         /\ q = Len(text) \/ text[q + 1] \notin class) - p

\* where a match of the piece can end when it starts after the first p
\* characters
EndsOf(text, piece, p) ==
    IF piece.kind = "boundary"
    THEN IF IsWordAt(text, p) # IsWordAt(text, p + 1) THEN {p} ELSE {}
    ELSE LET run == RunFrom(text, piece.class, p)
             most == IF piece.kind = "repeat" /\ piece.max < run
                     THEN piece.max ELSE run
         IN  {p + k : k \in piece.min..most}

\* where a match of the first i pieces can end
MatchEnds(text, pieces) ==
    LET ends[i \in 0..Len(pieces)] ==
            IF i = 0 THEN 0..Len(text)
            ELSE UNION {EndsOf(text, pieces[i], p) : p \in ends[i - 1]}
    IN  ends[Len(pieces)]

test(pieces, text) == MatchEnds(text, pieces) # {}

StreetWords ==
    {<<"s", "t", "r", "e", "e", "t">>, <<"s", "t">>,
     <<"a", "v", "e", "n", "u", "e">>, <<"a", "v", "e">>,
     <<"r", "o", "a", "d">>, <<"r", "d">>,
     <<"d", "r", "i", "v", "e">>, <<"d", "r">>,
     <<"l", "a", "n", "e">>, <<"l", "n">>,
     <<"b", "o", "u", "l", "e", "v", "a", "r", "d">>, <<"b", "l", "v", "d">>}
AddressWords == {<<"i", "p">>, <<"a", "d", "d", "r", "e", "s", "s">>}

\* lines 745-754
piiPatterns ==
    {<<WordBoundary,
       AtLeast(Upper \cup Lower \cup Digit \cup {".", "_", "%", "+", "-"}, 1),
       Times({"@"}, 1),
       AtLeast(Upper \cup Lower \cup Digit \cup {".", "-"}, 1),
       Times({"."}, 1),
       AtLeast(Upper \cup Lower \cup {"|"}, 2),
       WordBoundary>>,
     <<WordBoundary, Times(Digit, 3), Times({"-"}, 1), Times(Digit, 2),
       Times({"-"}, 1), Times(Digit, 4), WordBoundary>>,
     <<WordBoundary, Times(Digit, 4), Optional(WhiteSpace \cup {"-"}),
       Times(Digit, 4), Optional(WhiteSpace \cup {"-"}),
       Times(Digit, 4), Optional(WhiteSpace \cup {"-"}),
       Times(Digit, 4), WordBoundary>>,
     <<WordBoundary, Times(Digit, 3), Optional({"-", "."}),
       Times(Digit, 3), Optional({"-", "."}), Times(Digit, 4), WordBoundary>>,
     <<WordBoundary, Times(Upper, 1), AtLeast(Lower, 1), Times(WhiteSpace, 1),
       Times(Upper, 1), AtLeast(Lower, 1), WordBoundary>>,
     <<WordBoundary, Repeat(Upper \cup Digit, 2, 4),
       Optional(WhiteSpace \cup {"-"}), Repeat(Digit, 2, 4),
       Optional(WhiteSpace \cup {"-"}), Repeat(Digit, 2, 4), WordBoundary>>}
    \cup {<<WordBoundary, Repeat(Digit, 1, 5), Times(WhiteSpace, 1),
            AtLeast(WordChar, 1), Times(WhiteSpace, 1)>>
          \o IgnoringCase(word) \o <<WordBoundary>> : word \in StreetWords}
    \cup {<<WordBoundary>> \o IgnoringCase(word)
          \o <<Times({":"}, 1), AtLeast(WhiteSpace, 0),
               Repeat(Digit, 1, 3), Times({"."}, 1),
               Repeat(Digit, 1, 3), Times({"."}, 1),
               Repeat(Digit, 1, 3), Times({"."}, 1),
               Repeat(Digit, 1, 3), WordBoundary>> : word \in AddressWords}

\* lines 744-757
containsPII(value) == \E pattern \in piiPatterns : test(pattern, value)

\* the texts that the specifications below pass as parameter values
Padded(text, length) ==
    [i \in 1..length |-> IF i <= Len(text) THEN text[i] ELSE "x"]
CleanText == <<"t", "d", "s">>
EmailText == <<"a", "@", "b", ".", "c", "o">>
LongCleanText == Padded(<<>>, 101)
LongEmailText == Padded(EmailText \o <<" ">>, 101)
XirrMatrix == <<"x", "i", "r", "r", "_", "m", "a", "t", "r", "i", "x">>
BondParameterChange ==
    <<"b", "o", "n", "d", "_", "p", "a", "r", "a", "m", "e", "t", "e", "r",
      "_", "c", "h", "a", "n", "g", "e">>
KnownTexts ==
    {CleanText, EmailText, LongCleanText, LongEmailText, XirrMatrix,
     BondParameterChange, SubSeq(LongCleanText, 1, 100),
     SubSeq(LongEmailText, 1, 100)}

\* containsPII, the answers for the texts of the specifications below
\* computed once
Classified == [text \in KnownTexts |-> containsPII(text)]
classified(value) ==
    IF value \in DOMAIN Classified THEN Classified[value] ELSE containsPII(value)

\* a parameter value is its typeof and, for a string, its characters; a
\* parameters object is the sequence of its entries, and a missing one is
\* the empty one: both are sanitized to {} and spread to nothing
NoParameters == <<>>
StringValue(text) == [type |-> "string", text |-> text]
OtherValue(type) == [type |-> type, text |-> <<>>]

\* lines 726-737
keepsParameter(value) ==
    \/ value.type \in {"number", "boolean"}
    \/ /\ value.type = "string"
       /\ Len(value.text) > 100 \/ ~classified(value.text)
sanitizedValue(value) ==
    IF value.type = "string" /\ Len(value.text) > 100
    THEN [value EXCEPT !.text = SubSeq(@, 1, 100)]
    ELSE value

\* lines 718-739
sanitizeParameters(parameters) ==
    LET kept(entry) == keepsParameter(entry.value)
        entries == SelectSeq(parameters, kept)
    IN  [i \in DOMAIN entries |->
             [key |-> entries[i].key, value |-> sanitizedValue(entries[i].value)]]

\* { key: text, ...parameters }
spreadAfter(key, text, parameters) ==
    LET same(entry) == entry.key = key
        other(entry) == entry.key # key
        given == SelectSeq(parameters, same)
    IN  (IF given = <<>> THEN <<[key |-> key, value |-> StringValue(text)]>>
         ELSE given) \o SelectSeq(parameters, other)

-----------------------------------------------------------------------------
(* GoogleAnalyticsService (src/src/services/analyticsService.ts).  An        *)
(* operator takes and returns w = [service |-> the fields of the            *)
(* singleton, browser |-> window.gtag, the events passed to it,             *)
(* navigator.onLine and the clock].  Time is in minutes.  gtag does not     *)
(* throw, nobody opts out, and the browser reports no tracking              *)
(* restriction.                                                             *)

retryAttempts == 3
maxQueueSize == 100
sessionTimeout == 5

NoSession == [session_id |-> <<>>]
NoSessionId == <<>>

\* an AnalyticsEvent; the session id is kept apart from its other parameters
Event(w, eventName, sessionId, parameters) ==
    [event_name |-> eventName, timestamp |-> w.browser.now,
     session_id |-> sessionId, parameters |-> parameters]

\* lines 387-406, with no environment opt-out, Do Not Track or privacy
\* restriction
isTrackingEnabled(w) == w.service.enabled

queueEvent_Unbounded(w, event) ==
    [w EXCEPT !.service.eventQueue = Append(@, event)]

\* lines 833-846
queueEvent(w, event) ==
    [w EXCEPT !.service.eventQueue =
                  Append(IF Len(@) >= maxQueueSize THEN Tail(@) ELSE @, event)]

\* lines 298-320
sendEvent(w, event) ==
    IF ~w.service.initialized \/ ~w.browser.gtag \/ ~w.service.isOnline
    THEN queueEvent(w, event)
    ELSE [w EXCEPT !.browser.gtagCalls = Append(@, event)]

\* lines 119-130
trackEvent(w, eventName, sessionId, parameters) ==
    IF ~isTrackingEnabled(w) THEN w
    ELSE sendEvent(w, Event(w, eventName, sessionId,
                            sanitizeParameters(parameters)))

\* lines 291-293: the time and a random part
generateSessionId(w, random) == <<w.browser.now, random>>

\* lines 176-197
initializeSession(w, random) ==
    trackEvent([w EXCEPT !.service.sessionData =
                             [session_id |-> generateSessionId(w, random),
                              session_start |-> w.browser.now,
                              page_views |-> 1,
                              calculations_performed |-> 0],
                         !.service.lastActivityTime = w.browser.now,
                         !.service.calculationCount = 0,
                         !.service.interactionCount = 0],
               "session_start", generateSessionId(w, random), NoParameters)

\* lines 248-263
endSession(w) ==
    IF w.service.sessionData = NoSession THEN w
    ELSE [trackEvent(w, "session_end", w.service.sessionData.session_id,
                     NoParameters)
              EXCEPT !.service.sessionData = NoSession]

\* lines 230-243
trackSessionEngagement(w) ==
    IF w.service.sessionData = NoSession THEN w
    ELSE trackEvent(w, "session_engagement", w.service.sessionData.session_id,
                    NoParameters)

sessionExpired_AtTimeout(w) ==
    /\ w.service.sessionData # NoSession
    /\ w.browser.now - w.service.lastActivityTime >= sessionTimeout

\* line 206
sessionExpired(w) ==
    /\ w.service.sessionData # NoSession
    /\ w.browser.now - w.service.lastActivityTime > sessionTimeout

\* lines 218-224: the activity is counted in the running session
continueSession(w) ==
    IF (w.service.interactionCount + 1) % 10 = 0
    THEN trackSessionEngagement(
             [w EXCEPT !.service.lastActivityTime = w.browser.now,
                       !.service.interactionCount = @ + 1])
    ELSE [w EXCEPT !.service.lastActivityTime = w.browser.now,
                   !.service.interactionCount = @ + 1]

\* lines 202-225
updateSessionActivity(w, random) ==
    IF sessionExpired(w) THEN initializeSession(endSession(w), random)
    ELSE IF w.service.sessionData = NoSession THEN initializeSession(w, random)
    ELSE continueSession(w)

\* lines 93-113
countPageView(w) ==
    IF w.service.sessionData # NoSession
    THEN [w EXCEPT !.service.sessionData.page_views = @ + 1]
    ELSE w
trackPageView(w, random) ==
    IF ~isTrackingEnabled(w) THEN w
    ELSE countPageView(
             updateSessionActivity(
                 sendEvent(w, Event(w, "page_view", NoSessionId, NoParameters)),
                 random))

\* lines 135-150
trackCalculation(w, calculationType, parameters) ==
    IF ~isTrackingEnabled(w) THEN w
    ELSE sendEvent(w, Event(w, "bond_calculation", NoSessionId,
                            sanitizeParameters(
                                spreadAfter("calculation_type", calculationType,
                                            parameters))))

\* lines 155-172
trackUserInteraction(w, random, interaction, parameters) ==
    IF ~isTrackingEnabled(w) THEN w
    ELSE updateSessionActivity(
             sendEvent(w, Event(w, "input_change", NoSessionId,
                                sanitizeParameters(
                                    spreadAfter("interaction_type", interaction,
                                                parameters)))),
             random)

\* lines 277-286
recordCalculations(w) ==
    IF w.service.sessionData # NoSession
    THEN [w EXCEPT !.service.sessionData.calculations_performed =
                       w.service.calculationCount]
    ELSE w
trackCalculationWithSession(w, random, calculationType, parameters) ==
    recordCalculations(
        updateSessionActivity(
            [trackCalculation(w, calculationType, parameters)
                 EXCEPT !.service.calculationCount = @ + 1],
            random))

\* lines 582-608
optOut(w) ==
    endSession([w EXCEPT !.service.eventQueue = <<>>,
                         !.service.enabled = FALSE])

\* lines 806-828: the part of setupNetworkMonitoring that runs at once
setupNetworkMonitoring(w) ==
    [w EXCEPT !.service.isOnline = w.browser.onLine,
              !.service.monitoring = TRUE]

\* lines 940-952
handleAnalyticsBlocked(w) ==
    [w EXCEPT !.service.eventQueue = <<>>, !.service.initialized = FALSE]

\* the fields of a new GoogleAnalyticsService (lines 17-32), with whether
\* initialize has set config.enabled and has registered the listeners
NewService ==
    [enabled |-> FALSE, monitoring |-> FALSE, initialized |-> FALSE,
     eventQueue |-> <<>>, isOnline |-> TRUE, sessionData |-> NoSession,
     lastActivityTime |-> 0, calculationCount |-> 0, interactionCount |-> 0]

-----------------------------------------------------------------------------
(* State: one call to the stateless core -- the operation, its arguments    *)
(* and, once it has run, what it produced -- and, for calculate, the        *)
(* position in its loop and its local variables.                            *)

VARIABLES op, args, outcome, pc, sortedCashFlows, rate, newRate, iteration, evals

\* The BondCalculator component: its state (lines 33-42), the value of its
\* xirrMatrix memo, the calls of calculateScenarioXIRR of the latest build
\* (attempted), whether the exit-years effect (lines 131-136) is still to
\* run, the edits of the form still to come, and the results of
\* calculateScenarioXIRR worked out so far (scenarioRates).
VARIABLES inputs, selectedSalePrices, availableSalePrices, selectedExitYears,
          errors, xirrMatrix, attempted, effectPending, editsToCome,
          scenarioRates

\* The analytics singleton and the browser it runs in, the caller of
\* processEventQueue while its loop (lines 325-332) runs, and the count of
\* the retries of retryInitialization (lines 337-382) while its timer is
\* set; activityAt is the time of the latest tracked activity.
VARIABLES service, browser, flushing, attempts, activityAt

solverVars == <<pc, sortedCashFlows, rate, newRate, iteration, evals>>
componentVars ==
    <<inputs, selectedSalePrices, availableSalePrices, selectedExitYears,
      errors, xirrMatrix, attempted, effectPending, editsToCome,
      scenarioRates>>
analyticsVars == <<service, browser, flushing, attempts, activityAt>>
vars ==
    <<op, args, outcome, pc, sortedCashFlows, rate, newRate, iteration, evals,
      componentVars, analyticsVars>>

NoRetry == -1
NoActivity == -1

\* processEventQueue is not running; while it runs, caller names the
\* handler that called it and event is the loop's local (line 327)
NoEvent == [event_name |-> ""]
NotFlushing == [caller |-> "idle", event |-> NoEvent]

\* the page before App's effect has called initialize
NewBrowser == [gtag |-> FALSE, gtagCalls |-> <<>>, onLine |-> TRUE, now |-> 0]
NoAnalytics ==
    /\ service = NewService
    /\ browser = NewBrowser
    /\ flushing = NotFlushing
    /\ attempts = NoRetry
    /\ activityAt = NoActivity

\* no component is mounted
NotMounted ==
    /\ inputs = DEFAULT_BOND_INPUTS
    /\ selectedSalePrices = DEFAULT_SALE_PRICES
    /\ availableSalePrices = DEFAULT_SALE_PRICES
    /\ selectedExitYears = DEFAULT_EXIT_YEARS
    /\ errors = NoErrors
    /\ xirrMatrix = <<>>
    /\ attempted = <<>>
    /\ effectPending = FALSE
    /\ editsToCome = <<>>
    /\ scenarioRates = {}

TotalCostArgs ==
    [faceValue : FaceValues, purchasePrice : PurchasePrices,
     accruedInterest : AccruedInterests, brokerage : Brokerages]
MonthlyCouponArgs == [faceValue : FaceValues, couponRate : CouponRates]
NetMonthlyCouponArgs == [monthlyCoupon : MonthlyCoupons, tdsRate : TdsRates]
GenerateCashFlowsArgs ==
    [inputs : BondInputsSet, exitYear : ExitYears, salePrice : SalePrices]

\* calculate's locals before the call assigns them; evals counts the calls
\* of calculateNPVAndDerivative
SolverAtEntry ==
    /\ sortedCashFlows = <<>>
    /\ rate = INITIAL_GUESS
    /\ newRate = INITIAL_GUESS
    /\ iteration = 0
    /\ evals = 0

Init ==
    /\ NotMounted
    /\ NoAnalytics
    /\ outcome = NoCall
    /\ pc = "idle"
    /\ SolverAtEntry
    /\ \/ op = "calculateTotalCost" /\ args \in TotalCostArgs
       \/ op = "calculateMonthlyCoupon" /\ args \in MonthlyCouponArgs
       \/ op = "calculateNetMonthlyCoupon" /\ args \in NetMonthlyCouponArgs
       \/ op = "generateCashFlows" /\ args \in GenerateCashFlowsArgs
       \/ op = "calculateTotalAmount" /\ args \in GenerateCashFlowsArgs

\* BondCalc.calculateTotalCost(faceValue, purchasePrice, accruedInterest,
\* brokerage), as called at BondCalculator.tsx:228 and part_013:234
TotalCostCall ==
    /\ op = "calculateTotalCost" /\ outcome = NoCall
    /\ outcome' = calculateTotalCost(args.faceValue, args.purchasePrice,
                                     args.accruedInterest)
    /\ UNCHANGED <<op, args, solverVars, componentVars, analyticsVars>>

MonthlyCouponCall ==
    /\ op = "calculateMonthlyCoupon" /\ outcome = NoCall
    /\ outcome' = calculateMonthlyCoupon(args.faceValue, args.couponRate)
    /\ UNCHANGED <<op, args, solverVars, componentVars, analyticsVars>>

NetMonthlyCouponCall ==
    /\ op = "calculateNetMonthlyCoupon" /\ outcome = NoCall
    /\ outcome' = calculateNetMonthlyCoupon(args.monthlyCoupon, args.tdsRate)
    /\ UNCHANGED <<op, args, solverVars, componentVars, analyticsVars>>

GenerateCashFlowsCall ==
    /\ op = "generateCashFlows" /\ outcome = NoCall
    /\ outcome' = generateCashFlows(args.inputs, args.exitYear, args.salePrice)
    /\ UNCHANGED <<op, args, solverVars, componentVars, analyticsVars>>

\* ReturnMatrix's calculateTotalAmount(exitYear, salePrice) for a cell, as
\* called at ReturnMatrix.tsx:183 and 257 with the bondInputs prop
TotalAmountCall ==
    /\ op = "calculateTotalAmount" /\ outcome = NoCall
    /\ outcome' = Ok(calculateTotalAmount(args.inputs, args.exitYear,
                                          args.salePrice))
    /\ UNCHANGED <<op, args, solverVars, componentVars, analyticsVars>>

Next ==
    \/ TotalCostCall
    \/ MonthlyCouponCall
    \/ NetMonthlyCouponCall
    \/ GenerateCashFlowsCall
    \/ TotalAmountCall

Spec == Init /\ [][Next]_vars

-----------------------------------------------------------------------------
(* XIRRCalculator.calculate, one loop pass per step.                        *)

InitSolve ==
    /\ NotMounted
    /\ NoAnalytics
    /\ op = "calculate"
    /\ args \in CalculateArgs
    /\ outcome = NoCall
    /\ pc = "validate"
    /\ SolverAtEntry

\* lines 114-134: the input checks, the sort, rate = INITIAL_GUESS
CalculateValidate ==
    /\ pc = "validate"
    /\ IF validationError(args.given, args.cashFlows) # NoCall
       THEN /\ outcome' = validationError(args.given, args.cashFlows)
            /\ pc' = "done"
            /\ UNCHANGED <<sortedCashFlows, rate, iteration>>
       ELSE /\ sortedCashFlows' = sortByDate(args.cashFlows)
            /\ rate' = INITIAL_GUESS
            /\ iteration' = 0
            /\ pc' = "loop"
            /\ UNCHANGED outcome
    /\ UNCHANGED <<op, args, newRate, evals, componentVars, analyticsVars>>

\* lines 136-163: one pass through the loop body
CalculateIterate ==
    /\ pc = "loop" /\ loopContinues(iteration)
    /\ \E step \in {newtonStep(sortedCashFlows, sortedCashFlows[1].date, rate)} :
           /\ evals' = evals + 1
           /\ newRate' = step.newRate
           /\ rate' = step.rate
           /\ IF step.kind = "continue"
              THEN /\ iteration' = iteration + 1
                   /\ UNCHANGED <<pc, outcome>>
              ELSE /\ pc' = "done"
                   /\ outcome' = IF step.kind = "return" THEN Ok(step.value)
                                 ELSE Err(step.message)
                   /\ UNCHANGED iteration
    /\ UNCHANGED <<op, args, sortedCashFlows, componentVars, analyticsVars>>

\* line 165: the loop ran out
CalculateExhausted ==
    /\ pc = "loop" /\ ~loopContinues(iteration)
    /\ outcome' = Err("XIRR calculation failed to converge after 100 iterations")
    /\ pc' = "done"
    /\ UNCHANGED <<op, args, sortedCashFlows, rate, newRate, iteration, evals,
                   componentVars, analyticsVars>>

NextSolve ==
    \/ CalculateValidate
    \/ CalculateIterate
    \/ CalculateExhausted

SpecSolve == InitSolve /\ [][NextSolve]_vars

\* CalculateIterate can run whenever the loop condition holds: its body
\* assigns on every branch
IterateEnabled == pc = "loop" /\ loopContinues(iteration)

\* weak fairness of CalculateIterate, written out with the state predicate
\* that ENABLED <<CalculateIterate>>_vars equals
IterateFair == []<>(~IterateEnabled) \/ []<><<CalculateIterate>>_vars

\* the call runs to its end: nothing suspends the synchronous loop
SpecSolveFair ==
    /\ SpecSolve
    /\ WF_vars(CalculateValidate)
    /\ IterateFair
    /\ WF_vars(CalculateExhausted)

-----------------------------------------------------------------------------
(* XIRRCalculator.calculateScenarioXIRR (lines 282-289): the list is built  *)
(* and handed to calculate.                                                 *)

\* terms at, below and above par, with and without coupon, and terms the
\* cost engine rejects
ScenarioTerms ==
    {DEFAULT_BOND_INPUTS,
     [DEFAULT_BOND_INPUTS EXCEPT !.couponRate = Zero],
     [DEFAULT_BOND_INPUTS EXCEPT !.purchasePrice = Num(200)],
     [DEFAULT_BOND_INPUTS EXCEPT !.purchasePrice = Num(50)],
     [DEFAULT_BOND_INPUTS EXCEPT !.brokerage = Num(500)],
     [DEFAULT_BOND_INPUTS EXCEPT !.faceValue = Zero]}
ScenarioSalePrices == {Zero, Num(50), Num(100), Dec(1025, 1)}

ScenarioArgs ==
    {[given |-> TRUE, cashFlows |-> <<>>, inputs |-> terms,
      exitYear |-> exitYear, salePrice |-> salePrice] :
        terms \in ScenarioTerms, exitYear \in {1}, salePrice \in ScenarioSalePrices}
    \cup {[given |-> TRUE, cashFlows |-> <<>>, inputs |-> DEFAULT_BOND_INPUTS,
           exitYear |-> exitYear, salePrice |-> Num(100)] : exitYear \in {0, 2, 5, 6}}

InitScenario ==
    /\ NotMounted
    /\ NoAnalytics
    /\ op = "calculateScenarioXIRR"
    /\ args \in ScenarioArgs
    /\ outcome = NoCall
    /\ pc = "build"
    /\ SolverAtEntry

\* line 287: generateCashFlows throws, or its list becomes calculate's argument
ScenarioBuild ==
    /\ pc = "build"
    /\ \E built \in {generateCashFlows(args.inputs, args.exitYear, args.salePrice)} :
           IF built.kind = "error"
           THEN /\ outcome' = built
                /\ pc' = "done"
                /\ UNCHANGED args
           ELSE /\ args' = [args EXCEPT !.cashFlows = built.value]
                /\ pc' = "validate"
                /\ UNCHANGED outcome
    /\ UNCHANGED <<op, sortedCashFlows, rate, newRate, iteration, evals,
                   componentVars, analyticsVars>>

\* calls of the solver, directly or through calculateScenarioXIRR
NextScenario ==
    \/ ScenarioBuild
    \/ CalculateValidate
    \/ CalculateIterate
    \/ CalculateExhausted

SpecScenario == (InitSolve \/ InitScenario) /\ [][NextScenario]_vars

-----------------------------------------------------------------------------
(* The mounted BondCalculator component: one step per handler or effect,    *)
(* together with the render that follows it and the xirrMatrix memo of      *)
(* that render.  The sale prices on offer stay DEFAULT_SALE_PRICES.         *)

ShortMaturity == DateOf(2026, 11, 31)
ShortTerms == [DEFAULT_BOND_INPUTS EXCEPT !.maturityDate = ShortMaturity]
ShortTermsAt200 == [ShortTerms EXCEPT !.purchasePrice = Num(200)]

\* calculateScenarioXIRR on the valid terms the edits below pass through
ScenarioRates ==
    {[inputs |-> terms, exitYear |-> exitYear,
      salePrice |-> DEFAULT_SALE_PRICES[p],
      result |-> calculateScenarioXIRR(terms, exitYear, DEFAULT_SALE_PRICES[p])] :
        terms \in {DEFAULT_BOND_INPUTS, ShortTerms, ShortTermsAt200},
        exitYear \in 1..MaxExitYear,
        p \in 1..Len(DEFAULT_SALE_PRICES)}

\* what BondDetailsSection passes to handleInputChange
\* (src/src/components/BondDetailsSection.tsx, lines 26-51)
Edit(field, value) == [field |-> field, value |-> value]

\* the edits of one visit, in order: a shorter maturity, a price far from
\* par, dates in the wrong order, and values the validation rejects
EditSessions ==
    <<<<Edit("maturityDate", ShortMaturity), Edit("purchasePrice", Num(200)),
       Edit("maturityDate", DEFAULT_BOND_INPUTS.purchaseDate),
       Edit("maturityDate", ShortMaturity)>>,
     <<Edit("faceValue", NaNValue), Edit("faceValue", Num(100000))>>,
     <<Edit("faceValue", EmptyText), Edit("faceValue", Zero)>>,
     <<Edit("purchasePrice", Zero), Edit("accruedInterest", Num(-1))>>,
     <<Edit("accruedInterest", Num(-1))>>,
     <<Edit("brokerage", Num(-1))>>,
     <<Edit("tdsRate", Num(101)), Edit("tdsRate", Num(60))>>,
     <<Edit("maturityDate", DateOf(2025, 0, 1))>>,
     <<Edit("purchaseDate", DateOf(2031, 0, 1))>>>>

\* the check boxes the model clicks
ToggledYears == {1, 5}
ToggledPrices == {Num(100)}

\* a render: the memo runs on the state of this render (lines 263-340)
Render(inputsNow, salePricesNow, exitYearsNow, errorsNow) ==
    \E built \in {buildMatrix(inputsNow, salePricesNow, exitYearsNow,
                              scenarioRates)} :
        /\ xirrMatrix' = built.matrix
        /\ attempted' = built.attempted
        /\ errors' = errorsAfterRender(errorsNow, inputsNow, salePricesNow,
                                       exitYearsNow, built)

\* the first render (lines 33-42); the effect of lines 131-136 is to run
InitMounted ==
    /\ op = "BondCalculator"
    /\ NoAnalytics
    /\ args = <<>>
    /\ outcome = NoCall
    /\ pc = "idle"
    /\ SolverAtEntry
    /\ scenarioRates = ScenarioRates
    /\ inputs = DEFAULT_BOND_INPUTS
    /\ selectedSalePrices = DEFAULT_SALE_PRICES
    /\ availableSalePrices = DEFAULT_SALE_PRICES
    /\ selectedExitYears = DEFAULT_EXIT_YEARS
    /\ \E built \in {buildMatrix(DEFAULT_BOND_INPUTS, DEFAULT_SALE_PRICES,
                                  DEFAULT_EXIT_YEARS, scenarioRates)} :
           /\ xirrMatrix = built.matrix
           /\ attempted = built.attempted
           /\ errors = errorsAfterRender(NoErrors, DEFAULT_BOND_INPUTS,
                                         DEFAULT_SALE_PRICES, DEFAULT_EXIT_YEARS,
                                         built)
    /\ effectPending = TRUE
    /\ \E session \in 1..Len(EditSessions) : editsToCome = EditSessions[session]

\* the effect of lines 131-136, after a render in which a date changed
ExitYearsEffect ==
    /\ effectPending
    /\ selectedExitYears' =
           generateDefaultExitYears(inputs.purchaseDate, inputs.maturityDate)
    /\ effectPending' = FALSE
    /\ Render(inputs, selectedSalePrices, selectedExitYears', errors)
    /\ UNCHANGED <<op, args, outcome, solverVars, inputs, selectedSalePrices,
                   editsToCome, scenarioRates,
                   availableSalePrices, analyticsVars>>

\* handleInputChange (lines 183-195); handleDateChange passes a new Date,
\* so the effect runs after an edit of a date
HandleInputChange ==
    /\ ~effectPending
    /\ editsToCome # <<>>
    /\ inputs' = [inputs EXCEPT ![Head(editsToCome).field] = Head(editsToCome).value]
    /\ editsToCome' = Tail(editsToCome)
    /\ effectPending' = (bondInputSchema[Head(editsToCome).field].type = "date")
    /\ Render(inputs', selectedSalePrices, selectedExitYears,
              [errors EXCEPT !.inputErrors = getValidationErrors(inputs')])
    /\ UNCHANGED <<op, args, outcome, solverVars, selectedSalePrices,
                   selectedExitYears, scenarioRates,
                   availableSalePrices, analyticsVars>>

\* handleExitYearChange (lines 219-221) from a check box
HandleExitYearToggle ==
    /\ ~effectPending
    /\ \E year \in ToggledYears :
           selectedExitYears' = toggleYear(selectedExitYears, year)
    /\ Render(inputs, selectedSalePrices, selectedExitYears', errors)
    /\ UNCHANGED <<op, args, outcome, solverVars, inputs, selectedSalePrices,
                   effectPending, editsToCome, scenarioRates,
                   availableSalePrices, analyticsVars>>

\* handleExitYearChange from the select-all button
HandleExitYearSelectAll ==
    /\ ~effectPending
    /\ selectedExitYears' = selectAllYears(selectedExitYears)
    /\ Render(inputs, selectedSalePrices, selectedExitYears', errors)
    /\ UNCHANGED <<op, args, outcome, solverVars, inputs, selectedSalePrices,
                   effectPending, editsToCome, scenarioRates,
                   availableSalePrices, analyticsVars>>

\* handleSalePriceChange (lines 202-204) from a check box
HandleSalePriceToggle ==
    /\ ~effectPending
    /\ \E price \in ToggledPrices :
           selectedSalePrices' = togglePrice(selectedSalePrices, price)
    /\ Render(inputs, selectedSalePrices', selectedExitYears, errors)
    /\ UNCHANGED <<op, args, outcome, solverVars, inputs, selectedExitYears,
                   effectPending, editsToCome, scenarioRates,
                   availableSalePrices, analyticsVars>>

\* handleSalePriceChange from the select-all button
HandleSalePriceSelectAll ==
    /\ ~effectPending
    /\ selectedSalePrices' = selectAllPrices(selectedSalePrices, availableSalePrices)
    /\ Render(inputs, selectedSalePrices', selectedExitYears, errors)
    /\ UNCHANGED <<op, args, outcome, solverVars, inputs, selectedExitYears,
                   effectPending, editsToCome, scenarioRates,
                   availableSalePrices, analyticsVars>>

NextMounted ==
    \/ ExitYearsEffect
    \/ HandleInputChange
    \/ HandleExitYearToggle
    \/ HandleExitYearSelectAll
    \/ HandleSalePriceToggle
    \/ HandleSalePriceSelectAll

SpecMatrix == InitMounted /\ [][NextMounted]_vars

-----------------------------------------------------------------------------
(* The sale prices of the mounted BondCalculator: one step per handler of   *)
(* SalePriceSelector and per edit of the purchase price, and one for the    *)
(* effect of lines 114-126 that follows such an edit.  The xirrMatrix memo  *)
(* of the renders is the subject of SpecMatrix and is not followed here.    *)

\* purchase prices of the form: at par, above it on and off the half-percent
\* grid
NearParPrices == {Num(100), DivInt(Num(1012), 10), DivInt(Num(1025), 10)}

\* what the user types into the add-price input (lines 318-327), parsed
AddedPrices == {NaNValue, Zero, Num(101), DivInt(Num(1035), 10)}

Lists == SalePriceLists(selectedSalePrices, availableSalePrices)
SetLists(lists) ==
    /\ selectedSalePrices' = lists.selectedSalePrices
    /\ availableSalePrices' = lists.availableSalePrices

SelectorUntouched ==
    UNCHANGED <<op, args, outcome, solverVars, inputs, selectedExitYears, errors,
                xirrMatrix, attempted, effectPending, editsToCome,
                scenarioRates, analyticsVars>>

\* the component after its first render and the effects of that render: the
\* exit-years effect has set the years, the sale-price effect found the
\* list of line 36 filled and left it
InitSalePrices ==
    /\ op = "SalePriceSelector"
    /\ NoAnalytics
    /\ args = <<>>
    /\ outcome = NoCall
    /\ pc = "idle"
    /\ SolverAtEntry
    /\ scenarioRates = {}
    /\ inputs = DEFAULT_BOND_INPUTS
    /\ selectedSalePrices = DEFAULT_SALE_PRICES
    /\ availableSalePrices = DEFAULT_SALE_PRICES
    /\ selectedExitYears =
           generateDefaultExitYears(DEFAULT_BOND_INPUTS.purchaseDate,
                                    DEFAULT_BOND_INPUTS.maturityDate)
    /\ errors = NoErrors
    /\ xirrMatrix = <<>>
    /\ attempted = <<>>
    /\ effectPending = FALSE
    /\ editsToCome = <<>>

\* a check box of the price grid (lines 340-355)
HandlePriceToggle ==
    /\ ~effectPending
    /\ \E i \in 1..Len(availableSalePrices) :
           SetLists(handlePriceToggle(Lists, availableSalePrices[i]))
    /\ SelectorUntouched

\* the select-all button (lines 282-288)
HandleSelectAll ==
    /\ ~effectPending
    /\ SetLists(handleSelectAll(Lists))
    /\ SelectorUntouched

\* the add button of the add-price input (lines 328-334)
HandleAddPrice ==
    /\ ~effectPending
    /\ \E price \in AddedPrices : SetLists(handleAddPrice(Lists, price))
    /\ SelectorUntouched

\* the remove button of a price that is no default price (lines 384-393)
HandleRemovePrice ==
    /\ ~effectPending
    /\ \E i \in 1..Len(availableSalePrices) :
           /\ ~isDefaultPrice(availableSalePrices[i], inputs.purchasePrice)
           /\ SetLists(handleRemovePrice(Lists, availableSalePrices[i]))
    /\ SelectorUntouched

\* the reset button (lines 306-312)
HandleResetToDefaults ==
    /\ ~effectPending
    /\ SetLists(handleResetToDefaults(Lists, inputs.purchasePrice))
    /\ SelectorUntouched

\* handleInputChange (lines 183-195) for the purchase price; the effect of
\* lines 114-126 depends on it and runs after the render
HandlePurchasePriceChange ==
    /\ ~effectPending
    /\ \E value \in NearParPrices \ {inputs.purchasePrice} :
           inputs' = [inputs EXCEPT !.purchasePrice = value]
    /\ errors' = [errors EXCEPT !.inputErrors = getValidationErrors(inputs')]
    /\ effectPending' = TRUE
    /\ UNCHANGED <<op, args, outcome, solverVars, selectedSalePrices,
                   availableSalePrices, selectedExitYears, xirrMatrix,
                   attempted, editsToCome, scenarioRates, analyticsVars>>

\* the effect of lines 114-126
SalePricesEffect ==
    /\ effectPending
    /\ SetLists(salePricesEffect(Lists, inputs.purchasePrice))
    /\ effectPending' = FALSE
    /\ UNCHANGED <<op, args, outcome, solverVars, inputs, selectedExitYears,
                   errors, xirrMatrix, attempted, editsToCome, scenarioRates,
                   analyticsVars>>

NextSalePrices ==
    \/ HandlePriceToggle
    \/ HandleSelectAll
    \/ HandleAddPrice
    \/ HandleRemovePrice
    \/ HandleResetToDefaults
    \/ HandlePurchasePriceChange
    \/ SalePricesEffect

SpecSalePrices == InitSalePrices /\ [][NextSalePrices]_vars

-----------------------------------------------------------------------------
(* The analytics service in the page: App's effect calls initialize once,   *)
(* the page tracks events and activities, the browser goes off line and on  *)
(* line, the clock advances, and window.gtag may be defined late.           *)

MaxTime == 12
MaxEvents == 3
Delays == {5, 6}
RandomParts == {0, 1}

World == [service |-> service, browser |-> browser]
Becomes(w) == service' = w.service /\ browser' = w.browser
EventsSoFar == Len(browser.gtagCalls) + Len(service.eventQueue)

\* what callers pass for a parameter: nothing in the page, any kind of value
\* where the parameters are followed
ParameterValues ==
    {StringValue(CleanText), StringValue(EmailText), StringValue(LongCleanText),
     StringValue(LongEmailText), OtherValue("number"), OtherValue("object")}
CallParameters ==
    IF op = "analyticsService" THEN {NoParameters}
    ELSE {NoParameters}
         \cup {<<[key |-> "value", value |-> value]>> : value \in ParameterValues}
Idle == flushing = NotFlushing
CoreUntouched == UNCHANGED <<op, args, outcome, solverVars, componentVars>>

InitAnalytics ==
    /\ op = "analyticsService"
    /\ args = <<>>
    /\ outcome = NoCall
    /\ pc = "idle"
    /\ SolverAtEntry
    /\ NotMounted
    /\ service = NewService
    /\ browser \in {[NewBrowser EXCEPT !.gtag = defined] : defined \in BOOLEAN}
    /\ flushing = NotFlushing
    /\ attempts = NoRetry
    /\ activityAt = NoActivity

\* initialize (lines 37-88), called once by App's effect; with gtag it goes
\* on to processEventQueue, without it retryInitialization sets its timer
Initialize ==
    /\ Idle
    /\ ~service.monitoring
    /\ IF browser.gtag
       THEN /\ Becomes([setupNetworkMonitoring(
                            [World EXCEPT !.service.enabled = TRUE])
                           EXCEPT !.service.initialized = TRUE])
            /\ flushing' = [caller |-> "initialize", event |-> NoEvent]
            /\ UNCHANGED attempts
       ELSE /\ Becomes(setupNetworkMonitoring(
                           [World EXCEPT !.service.enabled = TRUE]))
            /\ attempts' = 0
            /\ UNCHANGED flushing
    /\ UNCHANGED activityAt
    /\ CoreUntouched

\* the timer callback of retryInitialization (lines 339-377)
RetryInitialization ==
    /\ Idle
    /\ attempts # NoRetry
    /\ IF attempts >= retryAttempts
       THEN /\ Becomes(IF ~browser.gtag THEN handleAnalyticsBlocked(World)
                       ELSE World)
            /\ attempts' = NoRetry
            /\ UNCHANGED flushing
       ELSE IF browser.gtag
       THEN /\ Becomes([World EXCEPT !.service.initialized = TRUE])
            /\ flushing' = [caller |-> "retryInitialization", event |-> NoEvent]
            /\ attempts' = NoRetry
       ELSE /\ attempts' = attempts + 1
            /\ UNCHANGED <<service, browser, flushing>>
    /\ UNCHANGED activityAt
    /\ CoreUntouched

\* the page's script defines window.gtag
GtagDefined ==
    /\ Idle
    /\ ~browser.gtag
    /\ browser' = [browser EXCEPT !.gtag = TRUE]
    /\ UNCHANGED <<service, flushing, attempts>>
    /\ UNCHANGED activityAt
    /\ CoreUntouched

\* the 'offline' listener (lines 822-827), once registered
Offline ==
    /\ Idle
    /\ browser.onLine
    /\ browser' = [browser EXCEPT !.onLine = FALSE]
    /\ service' = IF service.monitoring THEN [service EXCEPT !.isOnline = FALSE]
                  ELSE service
    /\ UNCHANGED <<flushing, attempts>>
    /\ UNCHANGED activityAt
    /\ CoreUntouched

\* the 'online' listener (lines 813-820), once registered, up to its call
\* of processEventQueue
Online ==
    /\ Idle
    /\ ~browser.onLine
    /\ browser' = [browser EXCEPT !.onLine = TRUE]
    /\ IF service.monitoring
       THEN /\ service' = [service EXCEPT !.isOnline = TRUE]
            /\ flushing' = [caller |-> "online", event |-> NoEvent]
       ELSE UNCHANGED <<service, flushing>>
    /\ UNCHANGED attempts
    /\ UNCHANGED activityAt
    /\ CoreUntouched

\* processEventQueue, lines 326-327: the loop test and the shift
ProcessEventQueueShift ==
    /\ flushing.caller # "idle"
    /\ flushing.event = NoEvent
    /\ service.eventQueue # <<>>
    /\ flushing' = [flushing EXCEPT !.event = Head(service.eventQueue)]
    /\ service' = [service EXCEPT !.eventQueue = Tail(@)]
    /\ UNCHANGED <<browser, attempts>>
    /\ UNCHANGED activityAt
    /\ CoreUntouched

\* processEventQueue, line 329: sendEvent(event)
ProcessEventQueueSend ==
    /\ flushing.caller # "idle"
    /\ flushing.event # NoEvent
    /\ Becomes(sendEvent(World, flushing.event))
    /\ flushing' = [flushing EXCEPT !.event = NoEvent]
    /\ UNCHANGED attempts
    /\ UNCHANGED activityAt
    /\ CoreUntouched

\* the loop ends and its caller goes on: initialize and the retry with
\* initializeSession (lines 73-75 and 358-360), the 'online' listener with
\* retryFailedEvents, which finds no failed event
ProcessEventQueueDone ==
    /\ flushing.caller # "idle"
    /\ flushing.event = NoEvent
    /\ service.eventQueue = <<>>
    /\ flushing' = NotFlushing
    /\ IF flushing.caller = "online" THEN UNCHANGED <<service, browser>>
       ELSE \E random \in RandomParts : Becomes(initializeSession(World, random))
    /\ UNCHANGED attempts
    /\ UNCHANGED activityAt
    /\ CoreUntouched

TrackPageView ==
    /\ Idle
    /\ isTrackingEnabled(World)
    /\ EventsSoFar < MaxEvents
    /\ \E random \in RandomParts : Becomes(trackPageView(World, random))
    /\ UNCHANGED <<flushing, attempts>>
    /\ activityAt' = browser.now
    /\ CoreUntouched

\* trackEvent (lines 119-130), called as CurrencyContext does
TrackEvent ==
    /\ Idle
    /\ isTrackingEnabled(World)
    /\ EventsSoFar < MaxEvents
    /\ \E parameters \in CallParameters :
           Becomes(trackEvent(World, "currency_change", NoSessionId, parameters))
    /\ UNCHANGED <<flushing, attempts>>
    /\ UNCHANGED activityAt
    /\ CoreUntouched

TrackCalculation ==
    /\ Idle
    /\ isTrackingEnabled(World)
    /\ EventsSoFar < MaxEvents
    /\ \E parameters \in CallParameters :
           Becomes(trackCalculation(World, XirrMatrix, parameters))
    /\ UNCHANGED <<flushing, attempts>>
    /\ UNCHANGED activityAt
    /\ CoreUntouched

TrackUserInteraction ==
    /\ Idle
    /\ isTrackingEnabled(World)
    /\ EventsSoFar < MaxEvents
    /\ \E random \in RandomParts, parameters \in CallParameters :
           Becomes(trackUserInteraction(World, random, BondParameterChange,
                                        parameters))
    /\ UNCHANGED <<flushing, attempts>>
    /\ activityAt' = browser.now
    /\ CoreUntouched

TrackCalculationWithSession ==
    /\ Idle
    /\ isTrackingEnabled(World)
    /\ EventsSoFar < MaxEvents
    /\ \E random \in RandomParts :
           Becomes(trackCalculationWithSession(World, random, XirrMatrix,
                                               NoParameters))
    /\ UNCHANGED <<flushing, attempts>>
    /\ activityAt' = browser.now
    /\ CoreUntouched

\* Date.now() moves on by minutes; the timers of retryInitialization (1, 2
\* and 4 seconds) run out before it does
AdvanceClock ==
    /\ Idle
    /\ attempts = NoRetry
    /\ \E delay \in Delays :
           /\ browser.now + delay <= MaxTime
           /\ browser' = [browser EXCEPT !.now = @ + delay]
    /\ UNCHANGED <<service, flushing, attempts>>
    /\ UNCHANGED activityAt
    /\ CoreUntouched

Activity == TrackPageView \/ TrackUserInteraction \/ TrackCalculationWithSession

NextAnalytics ==
    \/ Initialize
    \/ RetryInitialization
    \/ GtagDefined
    \/ Offline
    \/ Online
    \/ ProcessEventQueueShift
    \/ ProcessEventQueueSend
    \/ ProcessEventQueueDone
    \/ TrackPageView
    \/ TrackCalculation
    \/ TrackUserInteraction
    \/ TrackCalculationWithSession
    \/ AdvanceClock

SpecAnalytics == InitAnalytics /\ [][NextAnalytics]_vars

\* a handler that has begun runs on: nothing suspends the loop of
\* processEventQueue
SpecAnalyticsFair ==
    /\ SpecAnalytics
    /\ WF_vars(ProcessEventQueueShift)
    /\ WF_vars(ProcessEventQueueSend)
    /\ WF_vars(ProcessEventQueueDone)

-----------------------------------------------------------------------------
(* The event queue when analytics is blocked: window.gtag is never defined, *)
(* initialize and its retries give up, and the page goes on tracking a      *)
(* calculation every minute until the user opts out.                        *)

\* the minutes for which the page goes on tracking
MaxQueued == 102

InitQueue ==
    /\ op = "eventQueue"
    /\ args = <<>>
    /\ outcome = NoCall
    /\ pc = "idle"
    /\ SolverAtEntry
    /\ NotMounted
    /\ service = NewService
    /\ browser = NewBrowser
    /\ flushing = NotFlushing
    /\ attempts = NoRetry
    /\ activityAt = NoActivity

\* trackCalculation (lines 135-150), a minute after the call before
TrackCalculationNextMinute ==
    /\ Idle
    /\ attempts = NoRetry
    /\ isTrackingEnabled(World)
    /\ browser.now < MaxQueued
    /\ Becomes(trackCalculation([World EXCEPT !.browser.now = @ + 1],
                                XirrMatrix, NoParameters))
    /\ UNCHANGED <<flushing, attempts>>
    /\ UNCHANGED activityAt
    /\ CoreUntouched

\* optOut (lines 582-608)
OptOut ==
    /\ Idle
    /\ service.enabled
    /\ Becomes(optOut(World))
    /\ UNCHANGED <<flushing, attempts>>
    /\ UNCHANGED activityAt
    /\ CoreUntouched

NextQueue ==
    \/ Initialize
    \/ RetryInitialization
    \/ Offline
    \/ Online
    \/ ProcessEventQueueShift
    \/ ProcessEventQueueSend
    \/ ProcessEventQueueDone
    \/ TrackCalculationNextMinute
    \/ OptOut

SpecQueue == InitQueue /\ [][NextQueue]_vars

-----------------------------------------------------------------------------
(* The parameters of tracked events: the service from its construction,     *)
(* with callers that pass every kind of parameter value.                    *)

InitTracking ==
    /\ op = "tracking"
    /\ args = <<>>
    /\ outcome = NoCall
    /\ pc = "idle"
    /\ SolverAtEntry
    /\ NotMounted
    /\ service = NewService
    /\ browser \in {[NewBrowser EXCEPT !.gtag = defined] : defined \in BOOLEAN}
    /\ flushing = NotFlushing
    /\ attempts = NoRetry
    /\ activityAt = NoActivity

NextTracking ==
    \/ Initialize
    \/ RetryInitialization
    \/ GtagDefined
    \/ ProcessEventQueueShift
    \/ ProcessEventQueueSend
    \/ ProcessEventQueueDone
    \/ TrackEvent
    \/ TrackCalculation
    \/ TrackUserInteraction

SpecTracking == InitTracking /\ [][NextTracking]_vars

-----------------------------------------------------------------------------
(* Properties of BondCalculator and of generateCashFlows, under Spec.       *)

Returned == outcome # NoCall
Threw == outcome.kind = "error"

\* the terms the core is specified for (spec section 3, BondTerms)
ValidTerms(terms) ==
    /\ Gt(terms.faceValue, Zero) /\ Ge(terms.couponRate, Zero)
    /\ Gt(terms.purchasePrice, Zero) /\ Ge(terms.accruedInterest, Zero)
    /\ Ge(terms.brokerage, Zero)
    /\ terms.maturityDate > terms.purchaseDate
    /\ Ge(terms.tdsRate, Zero) /\ Le(terms.tdsRate, Num(100))

\* faceValue * (purchasePrice / 100) + accruedInterest + brokerage
CostWithBrokerage(faceValue, purchasePrice, accruedInterest, brokerage) ==
    Add(Add(Mul(faceValue, Div(purchasePrice, Num(100))), accruedInterest),
        brokerage)

\* C1: for valid F > 0, P > 0, A >= 0, B >= 0 the total cost returned is
\* F * (P / 100) + A + B, brokerage included.
C1_TotalCostIncludesBrokerage ==
    (/\ op = "calculateTotalCost" /\ Returned
     /\ Gt(args.faceValue, Zero) /\ Gt(args.purchasePrice, Zero)
     /\ Ge(args.accruedInterest, Zero) /\ Ge(args.brokerage, Zero))
    => outcome = Ok(CostWithBrokerage(args.faceValue, args.purchasePrice,
                                      args.accruedInterest, args.brokerage))

\* C2: each BondCalculator operation throws exactly on its listed
\* out-of-range arguments and returns an amount on every other input.
C2_ThrowsExactlyOutOfRange ==
    /\ (op = "calculateTotalCost" /\ Returned) =>
          /\ Threw <=> \/ Le(args.faceValue, Zero)
                       \/ Le(args.purchasePrice, Zero)
                       \/ Lt(args.accruedInterest, Zero)
          /\ ~Threw => outcome.kind = "ok"
          /\ Threw => "value" \notin DOMAIN outcome
    /\ (op = "calculateMonthlyCoupon" /\ Returned) =>
          /\ Threw <=> Le(args.faceValue, Zero) \/ Lt(args.couponRate, Zero)
          /\ ~Threw => outcome.kind = "ok"
          /\ Threw => "value" \notin DOMAIN outcome
    /\ (op = "calculateNetMonthlyCoupon" /\ Returned) =>
          /\ Threw <=> \/ Lt(args.monthlyCoupon, Zero)
                       \/ Lt(args.tdsRate, Zero)
                       \/ Gt(args.tdsRate, Num(100))
          /\ ~Threw => outcome.kind = "ok"
          /\ Threw => "value" \notin DOMAIN outcome

\* a face value of exactly zero is refused
C2_Witness ==
    /\ op = "calculateTotalCost" /\ Threw
    /\ args.faceValue = Zero /\ Gt(args.purchasePrice, Zero)
    /\ Ge(args.accruedInterest, Zero)

\* C3: netMonthlyCoupon(mc, tds) = mc * (1 - tds/100); for fixed mc >= 0 it
\* does not grow as tds grows over [0, 100] (and falls strictly when mc > 0),
\* it is mc at tds = 0 and 0 at tds = 100.
C3_NetCouponDecreasesInTds ==
    (op = "calculateNetMonthlyCoupon" /\ Returned /\ ~Threw) =>
        /\ outcome.value =
              Mul(args.monthlyCoupon, Sub(One, Div(args.tdsRate, Num(100))))
        /\ args.tdsRate = Zero => outcome.value = args.monthlyCoupon
        /\ args.tdsRate = Num(100) => outcome.value = Zero
        /\ \A t2 \in TdsRates :
              (Lt(args.tdsRate, t2) /\ Le(t2, Num(100))) =>
                 LET other == calculateNetMonthlyCoupon(args.monthlyCoupon, t2)
                 IN  /\ other.kind = "ok"
                     /\ Le(other.value, outcome.value)
                     /\ Gt(args.monthlyCoupon, Zero) =>
                            Lt(other.value, outcome.value)

C3_Witness ==
    /\ op = "calculateNetMonthlyCoupon" /\ Returned /\ ~Threw
    /\ Gt(args.monthlyCoupon, Zero) /\ args.tdsRate = Num(10)
    /\ Lt(outcome.value, args.monthlyCoupon) /\ Gt(outcome.value, Zero)

Built == op = "generateCashFlows" /\ Returned /\ ~Threw

\* C4: the list built for valid terms and an accepted scenario has exactly
\* 1 + exitYear * 12 entries, the initial outflow first.
C4_ListLength ==
    (Built /\ ValidTerms(args.inputs)) =>
        /\ Len(outcome.value) = 1 + args.exitYear * 12
        /\ Lt(outcome.value[1].amount, Zero)

C4_Witness ==
    /\ Built /\ ValidTerms(args.inputs)
    /\ args.exitYear = 5 /\ Len(outcome.value) = 61

\* C5: the first cash flow is dated purchaseDate with amount
\* -(faceValue * purchasePrice/100 + accruedInterest + brokerage), and it is
\* the only negative amount of the list.
C5_FirstFlowIsMinusTotalCost ==
    (Built /\ ValidTerms(args.inputs)) =>
        /\ outcome.value[1].date = args.inputs.purchaseDate
        /\ outcome.value[1].amount =
              Neg(CostWithBrokerage(args.inputs.faceValue,
                                    args.inputs.purchasePrice,
                                    args.inputs.accruedInterest,
                                    args.inputs.brokerage))
        /\ Lt(outcome.value[1].amount, Zero)
        /\ \A i \in 2..Len(outcome.value) : Ge(outcome.value[i].amount, Zero)

\* what BondCalculator makes of the terms' coupon and TDS rates
EngineNetCoupon(terms) ==
    calculateNetMonthlyCoupon(
        calculateMonthlyCoupon(terms.faceValue, terms.couponRate).value,
        terms.tdsRate).value

\* C6: every monthly entry but the last is the net monthly coupon; the last
\* is the net monthly coupon plus faceValue * (salePrice / 100).
C6_ProceedsOnlyInFinalMonth ==
    (Built /\ ValidTerms(args.inputs)) =>
        LET n == Len(outcome.value)
            net == EngineNetCoupon(args.inputs)
        IN  /\ \A i \in 2..(n - 1) : outcome.value[i].amount = net
            /\ outcome.value[n].amount =
                  Add(net, Mul(args.inputs.faceValue,
                               Div(args.salePrice, Num(100))))

C6_Witness ==
    /\ Built /\ ValidTerms(args.inputs)
    /\ args.exitYear = 2 /\ Gt(args.inputs.couponRate, Zero)
    /\ Gt(outcome.value[24].amount, Zero)
    /\ Gt(outcome.value[25].amount, args.inputs.faceValue)

ExitYearMessages ==
    {"Exit year must be at least 1", "Exit year cannot exceed maximum"}

-----------------------------------------------------------------------------
(* Properties of XIRRCalculator.calculate, under SpecSolve.                 *)

TooFewMessage == "At least two cash flows are required for XIRR calculation"
NoSignChangeMessage ==
    "Cash flows must contain at least one positive and one negative value"
FlatSlopeMessage == "XIRR calculation failed: derivative too close to zero"
DivergedMessage == "XIRR calculation diverged to extreme values"
ExhaustedMessage == "XIRR calculation failed to converge after 100 iterations"

\* InsufficientData, DegenerateCashFlows, NonConvergence (flat slope or
\* budget exhausted) and Divergence
FailureMessages ==
    {TooFewMessage, NoSignChangeMessage, FlatSlopeMessage, DivergedMessage,
     ExhaustedMessage}

\* C8: calculate throws the too-few error for a missing list or one of
\* fewer than 2 cash flows, otherwise the no-sign-change error when the list
\* lacks a strictly positive or a strictly negative amount (zero is
\* neither), in both cases before evaluating NPV once; no other list is
\* refused that way.
C8_RejectsBeforeIterating ==
    (op = "calculate" /\ pc # "validate") =>
        LET flows == args.cashFlows
            tooFew == ~args.given \/ Len(flows) < 2
            signChange ==
                /\ \E i \in 1..Len(flows) : ~flows[i].amount.neg /\ flows[i].amount # Zero
                /\ \E i \in 1..Len(flows) : flows[i].amount.neg
        IN  /\ tooFew => pc = "done" /\ outcome = Err(TooFewMessage) /\ evals = 0
            /\ (~tooFew /\ ~signChange) =>
                   pc = "done" /\ outcome = Err(NoSignChangeMessage) /\ evals = 0
            /\ (~tooFew /\ signChange) =>
                   outcome \notin {Err(TooFewMessage), Err(NoSignChangeMessage)}

\* a zero and a negative amount: no sign change
C8_Witness ==
    /\ op = "calculate" /\ pc = "done" /\ args.given
    /\ Len(args.cashFlows) = 2
    /\ args.cashFlows[1].amount.neg /\ args.cashFlows[2].amount = Zero
    /\ outcome = Err(NoSignChangeMessage) /\ evals = 0

\* at most 100 evaluations; the outcome is a rate or a listed failure; the
\* did-not-converge failure comes exactly after 100 unconverged passes
WithinBudget ==
    /\ evals <= MAX_ITERATIONS
    /\ pc = "done" =>
          /\ \/ outcome.kind = "ok"
             \/ outcome.kind = "error" /\ outcome.message \in FailureMessages
          /\ outcome = Err(ExhaustedMessage) <=>
                 (iteration = MAX_ITERATIONS /\ evals = MAX_ITERATIONS)

Finished == pc = "done"

\* C9: every call of calculate ends; it evaluates NPV and derivative at most
\* 100 times, ends with a rate or with one of the listed failures, and fails
\* with the did-not-converge error exactly when 100 passes went by without
\* the convergence test being met.
C9_TerminatesWithinBudget == []WithinBudget /\ <>Finished

C9_Witness ==
    /\ pc = "done" /\ evals = MAX_ITERATIONS
    /\ outcome = Err(ExhaustedMessage)

OutsideSaneRange(r) == Lt(r, Dec(-99, 2)) \/ Gt(r, Num(10))

\* C10: whenever an estimate produced in the loop is below -0.99 or above
\* 10, calculate throws the divergence error at once: such an estimate is
\* never returned and never iterated from.
C10_ExtremeEstimateAlwaysThrows ==
    /\ (pc = "done" /\ outcome.kind = "ok") => ~OutsideSaneRange(outcome.value)
    /\ pc = "loop" => ~OutsideSaneRange(rate)
    /\ OutsideSaneRange(newRate) => pc = "done" /\ outcome = Err(DivergedMessage)

\* the two-entry list of the round trip: 100 out, 110 back one year later
RoundTripArgs == [given |-> TRUE, cashFlows |-> YearlyFlows(<<-100, 110>>)]
RoundTripDone == op = "calculate" /\ args = RoundTripArgs /\ pc = "done"

\* C17: for the cash flows (t0, -100) and (t0 + one year of 365.25 days,
\* +110) calculate returns a rate within 1e-6 of 0.10.
C17_RoundTripIsTenPercent ==
    RoundTripDone =>
        /\ outcome.kind = "ok"
        /\ Lt(Abs(Sub(outcome.value, Dec(1, 1))), CONVERGENCE_THRESHOLD)

C17_Witness == RoundTripDone /\ outcome.kind = "ok" /\ evals >= 1

\* calculateScenarioXIRR got a list from generateCashFlows for valid terms
ScenarioAccepted ==
    /\ op = "calculateScenarioXIRR" /\ ValidTerms(args.inputs)
    /\ pc # "build" /\ args.cashFlows # <<>>
ScenarioDone == ScenarioAccepted /\ pc = "done"

\* C11 as stated: for valid terms and an accepted scenario the built list
\* has at least 2 entries, a strictly negative and a strictly positive
\* amount, calculate never fails with the too-few or the no-sign-change
\* error, and it converges to a rate.
C11_BuiltListAlwaysConverges ==
    /\ ScenarioAccepted =>
          /\ Len(args.cashFlows) >= 2
          /\ hasPositive(args.cashFlows) /\ hasNegative(args.cashFlows)
    /\ ScenarioDone => outcome.kind = "ok"

\* C11, amended: for valid terms and an accepted scenario the built list
\* passes the shape checks, so calculate never fails with the too-few or
\* the no-sign-change error: it returns a rate, or fails with the
\* divergence, flat-slope or did-not-converge error.
C11_BuiltListPassesShapeChecks ==
    /\ ScenarioAccepted =>
          /\ Len(args.cashFlows) >= 2
          /\ hasPositive(args.cashFlows) /\ hasNegative(args.cashFlows)
          /\ validationError(args.given, args.cashFlows) = NoCall
    /\ ScenarioDone =>
          \/ outcome.kind = "ok"
          \/ /\ outcome.kind = "error"
             /\ outcome.message \in {DivergedMessage, FlatSlopeMessage, ExhaustedMessage}

C11_Witness == ScenarioDone /\ outcome = Err(DivergedMessage) /\ evals >= 1

DefaultScenarioArgs ==
    op = "calculateScenarioXIRR" /\ args.inputs = DEFAULT_BOND_INPUTS
        /\ args.exitYear = 5 /\ args.salePrice = Num(100)

\* C16: for the default terms, exit year 5 and sale price 100 the scenario
\* is accepted, the first cash flow is -102858.63, the list has 61 entries
\* and the XIRR returned lies strictly between 0 and 0.30.
C16_DefaultScenario ==
    DefaultScenarioArgs =>
        /\ pc # "build" =>
              /\ outcome.kind # "error"
              /\ Len(args.cashFlows) = 61
              /\ args.cashFlows[1].amount = Neg(Dec(10285863, 2))
        /\ pc = "done" =>
              /\ outcome.kind = "ok"
              /\ Gt(outcome.value, Zero) /\ Lt(outcome.value, Dec(30, 2))

C16_Witness == DefaultScenarioArgs /\ pc = "done" /\ outcome.kind = "ok" /\ evals >= 1

\* ---- the return matrix of the mounted component ----

Ready == readyToCalculate(inputs, selectedSalePrices, selectedExitYears)
YearsSelected == {selectedExitYears[i] : i \in 1..Len(selectedExitYears)}
PricesSelected == {selectedSalePrices[j] : j \in 1..Len(selectedSalePrices)}
CellOutcome(exitYear, salePrice) ==
    scenarioXIRR(scenarioRates, inputs, exitYear, salePrice)
FailingCells ==
    {cell \in YearsSelected \X PricesSelected :
        CellOutcome(cell[1], cell[2]).kind = "error"}

\* C12: a build of the matrix has an entry for every selected exit year
\* and sale price; the entry of a scenario that throws is NaN and the
\* entry of every other scenario is the rate that scenario yields by
\* itself, so a failing cell neither stops the build nor changes another
\* cell.
C12_EveryCellBuiltOnItsOwn ==
    (op = "BondCalculator" /\ Ready) =>
        /\ DOMAIN xirrMatrix = YearsSelected
        /\ \A exitYear \in YearsSelected :
               /\ DOMAIN xirrMatrix[exitYear] = PricesSelected
               /\ \A salePrice \in PricesSelected :
                      xirrMatrix[exitYear][salePrice] =
                          IF CellOutcome(exitYear, salePrice).kind = "ok"
                          THEN CellOutcome(exitYear, salePrice).value
                          ELSE NaNValue
        /\ Len(attempted) = Len(selectedExitYears) * Len(selectedSalePrices)

\* a build in which a cell fails and a later cell of the same row holds
\* its rate
C12_Witness ==
    /\ op = "BondCalculator" /\ Ready
    /\ \E i \in 1..Len(selectedExitYears) :
       \E j, k \in 1..Len(selectedSalePrices) :
           /\ j < k
           /\ xirrMatrix[selectedExitYears[i]][selectedSalePrices[j]] = NaNValue
           /\ IsNumber(xirrMatrix[selectedExitYears[i]][selectedSalePrices[k]])

\* C13: with invalid terms, or with no sale price or no exit year selected,
\* the matrix is empty, no scenario was attempted and there is no
\* calculation message, whatever the build before had recorded.
C13_NothingBuiltWhenNotReady ==
    (op = "BondCalculator" /\ ~Ready) =>
        /\ xirrMatrix = <<>>
        /\ attempted = <<>>
        /\ errors.calculationErrors = <<>>

\* the third edit of the first session: the maturity date is set to the
\* purchase date while the matrix on screen has failing cells
C13_Witness ==
    /\ op = "BondCalculator" /\ ~Ready
    /\ inputs.maturityDate = inputs.purchaseDate
    /\ inputs.purchasePrice = Num(200)
    /\ Len(selectedSalePrices) # 0 /\ Len(selectedExitYears) # 0
    /\ errors.calculationErrors = <<>>

\* C14: the calculation messages are those of the latest build alone: one
\* for each of its failing cells, naming the cell's exit year, its sale
\* price and the kind of failure, and none for any other cell or build.
C14_MessagesOfThisBuildOnly ==
    op = "BondCalculator" =>
        /\ Len(errors.calculationErrors) = IF Ready THEN Cardinality(FailingCells) ELSE 0
        /\ Ready =>
               \A cell \in FailingCells :
                   \E n \in 1..Len(errors.calculationErrors) :
                       /\ errors.calculationErrors[n] =
                              calculationError(cell[1], cell[2],
                                               CellOutcome(cell[1], cell[2]).message)
                       /\ errors.calculationErrors[n][2] = cell[1]
                       /\ errors.calculationErrors[n][4] = cell[2]

\* a build with failing cells after a build whose failing cells were
\* others: the short bond at a purchase price of 200
C14_Witness ==
    /\ op = "BondCalculator" /\ Ready
    /\ inputs.purchasePrice = Num(200)
    /\ \E cell \in FailingCells :
           IncludesConverge(CellOutcome(cell[1], cell[2]).message) = FALSE
    /\ \E cell \in FailingCells :
           CellOutcome(cell[1], cell[2]).message = Err(DivergedMessage).message
    /\ \E cell \in YearsSelected \X PricesSelected : cell \notin FailingCells

AttemptedTermsValid(terms) ==
    /\ \A field \in {"faceValue", "couponRate", "purchasePrice",
                     "accruedInterest", "brokerage", "tdsRate"} :
           IsNumber(terms[field])
    /\ Gt(terms.faceValue, Zero)
    /\ Gt(terms.purchasePrice, Zero)
    /\ Ge(terms.accruedInterest, Zero)
    /\ Ge(terms.brokerage, Zero)
    /\ Ge(terms.tdsRate, Zero) /\ Le(terms.tdsRate, Num(100))
    /\ terms.maturityDate > terms.purchaseDate

\* C15: a scenario is attempted only with terms that passed validation:
\* face value and purchase price above zero, accrued interest and
\* brokerage not negative, TDS rate from 0 to 100 and maturity after
\* purchase; terms whose maturity is not after the purchase are rejected
\* and reach no scenario.
C15_ScenariosSeeValidTermsOnly ==
    op = "BondCalculator" =>
        /\ \A n \in 1..Len(attempted) :
               /\ attempted[n].inputs = inputs
               /\ AttemptedTermsValid(attempted[n].inputs)
        /\ inputs.maturityDate <= inputs.purchaseDate =>
               ~areAllInputsValid(inputs) /\ attempted = <<>>

\* maturity on the purchase date, every other term valid and both
\* selections non-empty
C15_Witness ==
    /\ op = "BondCalculator"
    /\ inputs.maturityDate = inputs.purchaseDate
    /\ areAllInputsValid([inputs EXCEPT !.maturityDate = ShortMaturity])
    /\ Len(selectedSalePrices) # 0 /\ Len(selectedExitYears) # 0
    /\ attempted = <<>>

\* what BondCalculator shows under "Return Matrix" (lines 465-475 of
\* BondCalculator.tsx)
Presentation ==
    returnMatrix(xirrMatrix, selectedSalePrices, selectedExitYears,
                 errors.calculationErrors)
SomeCellFailed ==
    /\ op = "BondCalculator" /\ Ready
    /\ \E cell \in YearsSelected \X PricesSelected :
           xirrMatrix[cell[1]][cell[2]] = NaNValue
    /\ Len(errors.calculationErrors) > 0

\* C18: when some cell of the matrix failed -- its value is NaN and a
\* message was recorded -- the presentation shows that cell as not
\* available and every other cell with its rate as a percentage.
C18_FailedCellShownOthersRendered ==
    SomeCellFailed =>
        \A cell \in YearsSelected \X PricesSelected :
            /\ cell \in DOMAIN Presentation.cells
            /\ Presentation.cells[cell] =
                   IF xirrMatrix[cell[1]][cell[2]] = NaNValue THEN NotAvailable
                   ELSE formatXIRR(xirrMatrix[cell[1]][cell[2]])

\* ---- the analytics service ----

\* the events a step hands to sendEvent: those it passes to gtag and
\* those it adds to the queue
Emitted ==
    SubSeq(browser'.gtagCalls, Len(browser.gtagCalls) + 1, Len(browser'.gtagCalls))
        \o SubSeq(service'.eventQueue, Len(service.eventQueue) + 1,
                  Len(service'.eventQueue))
SessionEvents == {"session_end", "session_start"}

C19_QueuedEventsReachGtagInOrder ==
    /\ [][(flushing.caller = "online" /\ browser'.gtagCalls # browser.gtagCalls) =>
             browser'.gtagCalls = Append(browser.gtagCalls, flushing.event)]_vars
    /\ (flushing.caller = "online" /\ service.eventQueue # <<>>)
           ~> (flushing.caller = "idle" /\ service.eventQueue = <<>>)

\* the strings among the parameters of an event
StringsOf(event) ==
    {event.parameters[i].value.text :
         i \in {j \in DOMAIN event.parameters :
                    event.parameters[j].value.type = "string"}}

\* C21: no parameter value that containsPII classifies as PII is passed to
\* gtag or put in the event queue by trackEvent, trackCalculation or
\* trackUserInteraction, whatever its length or type.
C21_NoPIIParameterIsTracked ==
    \A i \in 1..EventsSoFar :
        LET event == (browser.gtagCalls \o service.eventQueue)[i]
        IN  \A text \in StringsOf(event) : ~classified(text)

\* the calendar month of a date, counted from year 0
CalendarMonth(date) == getFullYear(date) * 12 + getMonth(date)

\* C22: the k-th monthly cash flow falls in the calendar month that is k
\* months after the purchase month, so that no two cash flows of a scenario
\* fall in the same calendar month, also for a purchase on the 29th, 30th
\* or 31st.
C22_FlowPerCalendarMonth ==
    Built =>
        /\ \A k \in 1..(args.exitYear * 12) :
               CalendarMonth(outcome.value[k + 1].date)
                   = CalendarMonth(args.inputs.purchaseDate) + k
        /\ \A i, j \in 1..Len(outcome.value) :
               i # j => CalendarMonth(outcome.value[i].date)
                            # CalendarMonth(outcome.value[j].date)

\* C23: the list that generateCashFlows returns is in strictly increasing
\* date order for every purchase date, month ends and leap years included:
\* each entry is dated after the one before it, the purchase outflow first.
C23_StrictlyIncreasingDates ==
    Built =>
        /\ outcome.value[1].date = args.inputs.purchaseDate
        /\ \A i \in 1..(Len(outcome.value) - 1) :
               outcome.value[i].date < outcome.value[i + 1].date

C23_Witness ==
    /\ Built /\ args.exitYear >= 2
    /\ getDate(args.inputs.purchaseDate) = 31
    /\ IsLeap(getFullYear(args.inputs.purchaseDate))
    /\ CalendarMonth(outcome.value[2].date)
           = CalendarMonth(args.inputs.purchaseDate) + 2
    /\ outcome.value[2].date < outcome.value[3].date

\* the lists with the entries of list in any order
Reorderings(list) ==
    {[i \in 1..Len(list) |-> list[order[i]]] :
        order \in {f \in [1..Len(list) -> 1..Len(list)] :
                      \A i, j \in 1..Len(list) : i # j => f[i] # f[j]}}

\* C24: calculate does not depend on the order of its input: for every
\* permutation of the list it takes the earliest-dated flow as the reference
\* date and ends with the same rate or the same failure.
C24_OrderOfInputIrrelevant ==
    (op = "calculate" /\ Finished /\ args.given) =>
        \A permuted \in Reorderings(args.cashFlows) :
            /\ validationError(TRUE, permuted)
                   = validationError(TRUE, args.cashFlows)
            /\ \A i \in 1..Len(permuted) :
                   sortByDate(permuted)[1].date <= permuted[i].date
            \* the same sorted list gives the same passes; entries of equal
            \* date may come out in another order, and then the call is
            \* worked out
            /\ \/ sortByDate(permuted) = sortByDate(args.cashFlows)
               \/ calculate(TRUE, permuted) = outcome

C24_Witness ==
    /\ op = "calculate" /\ Finished /\ args.given
    /\ outcome.kind = "ok"
    /\ args.cashFlows # sortByDate(args.cashFlows)
    /\ sortedCashFlows[1].date < args.cashFlows[1].date

\* the coupon or TDS rate is outside the range BondCalculator accepts
RatesOutOfRange(terms) ==
    \/ Lt(terms.couponRate, Zero)
    \/ Lt(terms.tdsRate, Zero) \/ Gt(terms.tdsRate, Num(100))

\* C25: generateCashFlows obtains the monthly inflow through BondCalculator
\* and so re-checks the ranges: for a negative coupon rate or a TDS rate
\* outside 0..100 it throws instead of returning a list, and for valid terms
\* every monthly coupon is calculateNetMonthlyCoupon(calculateMonthlyCoupon(
\* faceValue, couponRate), tdsRate).
C25_CouponThroughBondCalculator ==
    (op = "generateCashFlows" /\ Returned) =>
        /\ RatesOutOfRange(args.inputs) => Threw
        /\ (~Threw /\ ValidTerms(args.inputs)) =>
               \A i \in 2..Len(outcome.value) :
                   outcome.value[i].amount =
                       IF i < Len(outcome.value)
                       THEN EngineNetCoupon(args.inputs)
                       ELSE Add(EngineNetCoupon(args.inputs),
                                Mul(args.inputs.faceValue,
                                    Div(args.salePrice, Num(100))))

\* the exit years selected are the ones the effect of lines 131-136 sets
DefaultYearsSelected ==
    /\ op = "BondCalculator" /\ ~effectPending
    /\ selectedExitYears =
           generateDefaultExitYears(inputs.purchaseDate, inputs.maturityDate)

\* C26: every exit year selected by default for a purchase and maturity
\* date lies within the range generateCashFlows accepts, 1 .. maturityYear -
\* purchaseYear, so that for valid dates the default selection has no cell
\* out of range.
C26_DefaultExitYearsAccepted ==
    (DefaultYearsSelected /\ areAllInputsValid(inputs)) =>
        \A i \in 1..Len(selectedExitYears) :
            /\ selectedExitYears[i] \in 1..maxExitYear(inputs)
            /\ exitYearError(inputs, selectedExitYears[i]) = NoCall

\* C27: processEventQueue terminates in every reachable state of the
\* service: the loop that drains the queue ends after finitely many steps,
\* also when sendEvent cannot deliver and puts the event back in the queue.
C27_ProcessEventQueueTerminates ==
    (flushing.caller # "idle") ~> (flushing.caller = "idle")

\* C28: after any sequence of track, retry, online, offline and opt-out
\* operations the event queue holds at most 100 events, and an event queued
\* while the queue is full takes the place of the oldest: the oldest is
\* dropped and the new one appended.
C28_QueueHoldsAtMostHundred ==
    /\ [](Len(service.eventQueue) <= 100)
    /\ [][(TrackCalculationNextMinute /\ Len(service.eventQueue) = 100) =>
              /\ Len(service.eventQueue') = 100
              /\ SubSeq(service.eventQueue', 1, 99) = Tail(service.eventQueue)
              /\ service.eventQueue'[100].event_name = "bond_calculation"
              /\ service.eventQueue'[100].timestamp = browser'.now]_vars

C28_Witness ==
    /\ op = "eventQueue"
    /\ Len(service.eventQueue) = 100
    /\ browser.now > 100
    /\ service.eventQueue[1].timestamp = browser.now - 99
    /\ service.eventQueue[100].timestamp = browser.now

\* C29: after any sequence of sale-price operations (toggle, select all or
\* deselect all, add price, remove price, reset to defaults, purchase-price
\* change with its effect) every selected sale price is one of the available
\* sale prices, so the matrix is only computed for prices on offer.
C29_SelectedPricesAreAvailable ==
    op = "SalePriceSelector" =>
        \A i \in 1..Len(selectedSalePrices) :
            Includes(availableSalePrices, selectedSalePrices[i])

\* a price was added and selected, the purchase price moved to par and the
\* lists were reset to the defaults of that price
C29_Witness ==
    /\ op = "SalePriceSelector"
    /\ ~effectPending
    /\ inputs.purchasePrice = Num(100)
    /\ availableSalePrices = <<Num(100)>>
    /\ selectedSalePrices = <<Num(100)>>


\* the sum of the amounts received: the positive amounts of a list
RECURSIVE SumOfInflows(_)
SumOfInflows(cashFlows) ==
    IF cashFlows = <<>> THEN Zero
    ELSE IF Gt(Head(cashFlows).amount, Zero)
    THEN Add(Head(cashFlows).amount, SumOfInflows(Tail(cashFlows)))
    ELSE SumOfInflows(Tail(cashFlows))

\* C30: for a cell (exitYear, salePrice) of valid terms the total amount
\* shown next to the XIRR is the sum of the inflows of the cash-flow list the
\* XIRR of that cell is computed from -- the sale proceeds and exitYear * 12
\* net monthly coupons -- whatever the month of the purchase.
C30_TotalAmountIsSumOfInflows ==
    (/\ op = "calculateTotalAmount" /\ Returned
     /\ ValidTerms(args.inputs)
     /\ generateCashFlows(args.inputs, args.exitYear, args.salePrice).kind = "ok") =>
        outcome.value =
            SumOfInflows(generateCashFlows(args.inputs, args.exitYear,
                                           args.salePrice).value)


====
